---- MODULE Spec2Model ----
(***************************************************************************)
(* Model of the deployment kit's asynchronous orchestration scripts:       *)
(*   scripts/provider/e2e_test.py            (run_e2e_test and its phases) *)
(*   scripts/provider/http_utils.py          (make_http_request)           *)
(* One script runs per behaviour, single-threaded; every action is one     *)
(* HTTP request together with all local processing up to the next request. *)
(* The remote services are unconstrained: each request draws its response  *)
(* from the set of responses the HTTP layer can deliver.                   *)
(***************************************************************************)
EXTENDS Integers, Sequences, FiniteSets, TLC

VARIABLES script, pc, skip_prerequisites, target_asset_id, component,
          max_attempts, participant_did, conn,
          check_idx, all_passed,
          seed_step, item, all_successful, all_steps_successful, last_create,
          offer, negotiation_id, agreement_id, transfer_id, edr_details,
          loop, attempt, fetches, sleeps, fed, poll_last,
          nreq, sent, lastreq, resp,
          errlog, result, exit_code

vars == <<script, pc, skip_prerequisites, target_asset_id, component,
          max_attempts, participant_did, conn,
          check_idx, all_passed,
          seed_step, item, all_successful, all_steps_successful, last_create,
          offer, negotiation_id, agreement_id, transfer_id, edr_details,
          loop, attempt, fetches, sleeps, fed, poll_last,
          nreq, sent, lastreq, resp,
          errlog, result, exit_code>>

-----------------------------------------------------------------------------
(* Program constants *)

POLL_MAX_ATTEMPTS == 60
CREDENTIAL_POLL_MAX_ATTEMPTS == 30
HEALTH_CHECK_MAX_RETRIES == 30

\* per-request network timeouts and the delays between two polling attempts,
\* in seconds
HTTP_TIMEOUT_SECONDS == 30
HTTP_TIMEOUT == 30
ISSUER_HTTP_TIMEOUT_SECONDS == 30
POLL_INTERVAL_SECONDS == 2
CREDENTIAL_POLL_INTERVAL_SECONDS == 2
HEALTH_CHECK_RETRY_DELAY == 10

STATE_FINALIZED == "FINALIZED"
STATE_TERMINATED == "TERMINATED"
STATE_STARTED == "STARTED"
DEFAULT_TARGET_ASSET_ID == "asset-1"

-----------------------------------------------------------------------------
(* Python values *)

\* None (also a key absent from a JSON object, as dict.get returns None)
NONE == "<None>"

\* `not x` for a string-or-None value
Falsy(v) == v \in {NONE, ""}

\* the provider's DID (config.provider_did)
PROVIDER_DID == "did:web:provider"

-----------------------------------------------------------------------------
(* HTTP layer: what the network can deliver, and make_http_request *)

NoBody == [json |-> "none"]

\* statuses a service may answer with
CommonStatuses == {200, 201, 409, 500}
DataStatuses == {200, 204, 401, 403, 404, 500, 502, 504}

\* raw deliveries for an endpoint whose 200 bodies are `bodies`
Deliveries(statuses, bodies) ==
    {[net |-> "urlerror", status |-> 0, body |-> NoBody]}
    \cup {[net |-> "ok", status |-> s, body |-> NoBody] : s \in statuses \ {200}}
    \cup {[net |-> "ok", status |-> 200, body |-> b] : b \in bodies}

\* http_utils.make_http_request: urlopen returns for 2xx and raises
\* HTTPError for every other status (409 included); URLError gives status 0
make_http_request(raw) ==
    IF raw.net = "urlerror"
    THEN [success |-> FALSE, status_code |-> 0, body |-> NoBody]
    ELSE IF raw.status >= 200 /\ raw.status <= 299
         THEN [success |-> TRUE, status_code |-> raw.status, body |-> raw.body]
         ELSE [success |-> FALSE, status_code |-> raw.status, body |-> raw.body]

NoResp == [success |-> FALSE, status_code |-> -1, body |-> NoBody]

-----------------------------------------------------------------------------
(* Log: the error-level messages, in order *)

Msg(m, code) == [msg |-> m, code |-> code, ids |-> <<>>]
MsgIds(m, ids) == [msg |-> m, code |-> 0, ids |-> ids]

-----------------------------------------------------------------------------
(* Request kinds and bookkeeping *)

\* the requests a script issues outside its polling loops
ReqKinds == {"health", "assets", "policydefinitions", "contractdefinitions",
             "dataplanes", "catalog", "neg_init", "transfer_init", "edr", "data",
             "credentials_request", "create", "verify", "register_provider",
             "vault_secret", "did_server", "create_participants",
             "create_attestations", "create_credentials"}

Loops == {"negotiation", "transfer", "credential", "wait_for_health"}

Count(kind, n) == [nreq EXCEPT ![kind] = @ + n]

NoOffer == [asset_id |-> NONE, policy |-> [kind |-> "absent", id |-> NONE]]

Unsent == [neg_init |-> [target |-> NONE, assigner |-> NONE,
                         policy |-> [kind |-> "absent", id |-> NONE]],
           transfer_init |-> [contractId |-> NONE, assetId |-> NONE],
           neg_status |-> NONE,
           transfer_status |-> NONE,
           edr |-> NONE,
           credential_status |-> [scheme |-> "none", netloc |-> "", path |-> <<>>],
           data |-> [endpoint |-> NONE, header |-> NONE, value |-> NONE],
           vault_secret |-> NONE]
-----------------------------------------------------------------------------
(* Initial state: the command line of the script (argparse defaults or flags) *)

\* add_participant.py --did, split at ":" (no DID for the other scripts)
NoDid == <<>>

ParticipantDids ==
    { <<"did", "web", "provider.example.com%3A9083", "provider">>,
      <<"did", "web", "">>,
      <<"did", "key", "z6Mk">>,
      <<"provider">> }

ParticipantDidsOf(sc) == IF sc = "add_participant" THEN ParticipantDids ELSE {NoDid}

\* the tables add_participant.py writes to; a table stands for its row of
\* the participant
Tables == {"holders", "membership_attestations", "data_processor_attestations"}

\* self.conn and the database behind it: the committed rows of the
\* participant (before: when the script started), the rows inserted by the
\* open transaction, whether the transaction is in the failed state, and the
\* statements, commits and rollbacks issued so far
NoConn == [open |-> FALSE, before |-> {}, tables |-> {}, pending |-> {},
           aborted |-> FALSE, executed |-> <<>>, failed |-> {},
           commits |-> 0, rollbacks |-> 0]

ConnectionsOf(sc) ==
    IF sc = "add_participant"
    THEN {[NoConn EXCEPT !.before = t, !.tables = t] : t \in SUBSET Tables}
    ELSE {NoConn}

TargetAssetIds == {DEFAULT_TARGET_ASSET_ID, "asset-2", "asset-3"}

Scripts == {"e2e_test", "request_credentials", "seed_participant",
            "create_participants", "register_issuer_participant",
            "add_participant", "register_provider_participant", "seed_issuer"}

\* seed_participant.py [component]
Components == {"assets", "policies", "contracts", "verify", "all"}

\* the command lines: script, --skip-prerequisites, --asset-id, component
CommandLines ==
    {<<"e2e_test", sk, t, "all">> : sk \in BOOLEAN, t \in TargetAssetIds}
    \cup {<<"seed_participant", FALSE, DEFAULT_TARGET_ASSET_ID, c>> : c \in Components}
    \cup {<<sc, FALSE, DEFAULT_TARGET_ASSET_ID, "all">> :
             sc \in {"request_credentials", "create_participants",
                     "register_issuer_participant", "add_participant",
                     "register_provider_participant"}}

NoCreate == [kind |-> "none", status |-> -1, ret |-> FALSE]


NoEdrDetails == [endpoint |-> NONE, auth_code |-> NONE]

NoPollLast == [outcome |-> "none", state |-> NONE, value |-> NONE]

\* the module constant that bounds the polling loop of a script
ScriptMaxAttempts(sc) ==
    IF sc = "request_credentials" THEN CREDENTIAL_POLL_MAX_ATTEMPTS
    ELSE IF sc = "verify_deployment" THEN HEALTH_CHECK_MAX_RETRIES
    ELSE POLL_MAX_ATTEMPTS

Init ==
    /\ \E cl \in CommandLines :
         /\ script = cl[1]
         /\ skip_prerequisites = cl[2]
         /\ target_asset_id = cl[3]
         /\ component = cl[4]
         /\ max_attempts = ScriptMaxAttempts(cl[1])
         /\ participant_did \in ParticipantDidsOf(cl[1])
         /\ conn \in ConnectionsOf(cl[1])
    /\ pc = "main"
    /\ seed_step = "none"
    /\ item = 0
    /\ all_successful = TRUE
    /\ all_steps_successful = TRUE
    /\ last_create = NoCreate
    /\ check_idx = 0
    /\ all_passed = TRUE
    /\ offer = NoOffer
    /\ negotiation_id = NONE
    /\ agreement_id = NONE
    /\ transfer_id = NONE
    /\ edr_details = NoEdrDetails
    /\ loop = "none"
    /\ attempt = 0
    /\ fetches = 0
    /\ sleeps = 0
    /\ fed = <<>>
    /\ poll_last = [l \in Loops |-> NoPollLast]
    /\ nreq = [k \in ReqKinds |-> 0]
    /\ sent = Unsent
    /\ lastreq = "none"
    /\ resp = NoResp
    /\ errlog = <<>>
    /\ result = "none"
    /\ exit_code = -1

runVars == <<offer, negotiation_id, agreement_id, transfer_id, edr_details>>
pollVars == <<loop, attempt, fetches, sleeps, fed, poll_last>>
argVars == <<script, skip_prerequisites, target_asset_id, component, max_attempts,
            participant_did>>
seedVars == <<seed_step, item, all_successful, all_steps_successful, last_create>>
prereqVars == <<check_idx, all_passed, seedVars>>

-----------------------------------------------------------------------------
(* e2e_test.main: load the configuration, then run the test *)

\* run_e2e_test that checks the prerequisites whatever the flag
E2EMain_always_checking ==
    /\ script = "e2e_test"
    /\ pc = "main"
    /\ \E config_ok \in BOOLEAN :
         IF ~config_ok
         THEN /\ pc' = "exited"
              /\ exit_code' = 1
              /\ errlog' = Append(errlog, Msg("Failed to load configuration", 0))
         ELSE /\ pc' = "prerequisites"
              /\ UNCHANGED <<exit_code, errlog>>
    /\ check_idx' = 1
    /\ UNCHANGED <<argVars, conn, all_passed, seedVars, runVars, pollVars,
                   nreq, sent, lastreq, resp, result>>

\* main up to the call of run_e2e_test, and run_e2e_test up to its first
\* request; load_config returns None when the configuration is invalid
E2EMain ==
    /\ script = "e2e_test"
    /\ pc = "main"
    /\ \E config_ok \in BOOLEAN :
         IF ~config_ok
         THEN /\ pc' = "exited"
              /\ exit_code' = 1
              /\ errlog' = Append(errlog, Msg("Failed to load configuration", 0))
         ELSE /\ pc' = IF skip_prerequisites THEN "phase1" ELSE "prerequisites"
              /\ UNCHANGED <<exit_code, errlog>>
    /\ check_idx' = IF skip_prerequisites THEN check_idx ELSE 1
    /\ UNCHANGED <<argVars, conn, all_passed, seedVars, runVars, pollVars,
                   nreq, sent, lastreq, resp, result>>

\* main after run_e2e_test: `return 0 if success else 1`; an exception that
\* leaves main ends the interpreter with status 1
\* an exit code that only tells a returned result from a crash
ExitCodeOf_returned(res) == IF res \in {"true", "false"} THEN 0 ELSE 1

ExitCodeOf(res) == IF res = "true" THEN 0 ELSE 1

\* run_e2e_test returns (or raises) and main exits with the code of the result
ReturnToMain(res) ==
    /\ pc' = "exited"
    /\ result' = res
    /\ exit_code' = ExitCodeOf(res)

-----------------------------------------------------------------------------
(* Phase 0: check_prerequisites *)

CheckNames == <<"Service Health", "Assets Seeded", "Policies Configured",
                "Contract Definitions Configured", "Dataplane Available">>

CheckKinds == <<"health", "assets", "policydefinitions",
                "contractdefinitions", "dataplanes">>

HealthDeliveries == Deliveries(CommonStatuses, {NoBody})

\* bodies of the list endpoints; `first` is the state of the first entry
\* ("UNKNOWN" when it has none, "nonobject" when the entry is no JSON object)
ListBodies ==
    {[json |-> j, len |-> 0, first |-> NONE] : j \in {"invalid", "other", "list"}}
    \cup {[json |-> "list", len |-> 1, first |-> f] :
             f \in {"AVAILABLE", "UNKNOWN", "nonobject"}}

ListDeliveries == Deliveries(CommonStatuses, ListBodies)

\* check_service_health over its three health URLs
check_service_health(rs) ==
    \A i \in 1..3 : rs[i].success /\ rs[i].status_code = 200

\* check_assets_exist, check_policies_exist, check_contract_definitions_exist
check_list_exists(r) ==
    IF r.success /\ r.status_code = 200
    THEN r.body.json = "list" /\ r.body.len > 0
    ELSE FALSE

\* check_dataplane_available: "true", "false" or "raise" (data[0].get on a
\* first entry that is not an object)
check_dataplane_available(r) ==
    IF r.success /\ r.status_code = 200
    THEN IF r.body.json = "list" /\ r.body.len > 0
         THEN IF r.body.first = "nonobject" THEN "raise"
              ELSE IF r.body.first = "AVAILABLE" THEN "true" ELSE "false"
         ELSE "false"
    ELSE "false"

\* one iteration of the loop of check_prerequisites, and after the last
\* iteration its return into run_e2e_test
\* check_prerequisites whose result run_e2e_test does not look at
AfterCheck_ungated(passed, msgs) ==
    /\ all_passed' = (all_passed /\ passed)
    /\ errlog' = errlog \o msgs
    /\ IF check_idx < 5
       THEN check_idx' = check_idx + 1 /\ pc' = pc
       ELSE check_idx' = check_idx /\ pc' = "phase1"
    /\ UNCHANGED <<result, exit_code>>

\* check_prerequisites that returns at the first failed check
AfterCheck_stopping(passed, msgs) ==
    LET ap == all_passed /\ passed
        log1 == errlog \o msgs
    IN /\ all_passed' = ap
       /\ IF check_idx < 5 /\ ap
          THEN /\ check_idx' = check_idx + 1
               /\ errlog' = log1
               /\ UNCHANGED <<pc, result, exit_code>>
          ELSE /\ check_idx' = check_idx
               /\ IF ap
                  THEN /\ pc' = "phase1"
                       /\ errlog' = log1
                       /\ UNCHANGED <<result, exit_code>>
                  ELSE /\ ReturnToMain("false")
                       /\ errlog' = log1 \o
                            <<Msg("Prerequisite checks failed", 0),
                              Msg("E2E Test Failed - Prerequisites not met", 0)>>

AfterCheck(passed, msgs) ==
    LET ap == all_passed /\ passed
        log1 == errlog \o msgs
    IN /\ all_passed' = ap
       /\ IF check_idx < 5
          THEN /\ check_idx' = check_idx + 1
               /\ errlog' = log1
               /\ UNCHANGED <<pc, result, exit_code>>
          ELSE /\ check_idx' = check_idx
               /\ IF ap
                  THEN /\ pc' = "phase1"
                       /\ errlog' = log1
                       /\ UNCHANGED <<result, exit_code>>
                  ELSE /\ ReturnToMain("false")
                       /\ errlog' = log1 \o
                            <<Msg("Prerequisite checks failed", 0),
                              Msg("E2E Test Failed - Prerequisites not met", 0)>>

CheckServiceHealth ==
    /\ script = "e2e_test"
    /\ pc = "prerequisites"
    /\ check_idx = 1
    /\ \E d1, d2, d3 \in HealthDeliveries :
         LET rs == <<make_http_request(d1), make_http_request(d2),
                     make_http_request(d3)>>
             ok == check_service_health(rs)
         IN /\ resp' = rs[3]
            /\ AfterCheck(ok,
                 IF ok THEN <<>>
                 ELSE <<Msg("check failed", 1)>>)
    /\ nreq' = Count("health", 3)
    /\ lastreq' = "health"
    /\ UNCHANGED <<argVars, conn, seedVars, runVars, pollVars, sent>>

CheckSeeded ==
    /\ script = "e2e_test"
    /\ pc = "prerequisites"
    /\ check_idx \in 2..5
    /\ \E d \in ListDeliveries :
         LET r == make_http_request(d)
             res == IF check_idx = 5 THEN check_dataplane_available(r)
                    ELSE IF check_list_exists(r) THEN "true" ELSE "false"
         IN /\ resp' = r
            /\ AfterCheck(res = "true",
                 IF res = "true" THEN <<>>
                 ELSE IF res = "raise"
                 THEN <<Msg("check failed with exception", check_idx)>>
                 ELSE <<Msg("check failed", check_idx)>>)
    /\ nreq' = Count(CheckKinds[check_idx], 1)
    /\ lastreq' = CheckKinds[check_idx]
    /\ UNCHANGED <<argVars, conn, seedVars, runVars, pollVars, sent>>

-----------------------------------------------------------------------------
(* Leaving run_e2e_test *)

\* `return False` of run_e2e_test after the failure of a phase
PhaseNames == <<"Phase 1: Catalog Discovery", "Phase 2: Contract Negotiation",
                "Phase 3: Transfer Process", "Phase 4: Data Access">>

PhaseFailed(phase) == Msg("E2E Test Failed - " \o PhaseNames[phase], phase)

\* a failed phase that is logged without the `return False`
FailRun_continuing(phase, msgs) ==
    /\ errlog' = errlog \o msgs \o <<PhaseFailed(phase)>>
    /\ IF phase = 4
       THEN ReturnToMain("false")
       ELSE /\ pc' = IF phase = 1 THEN "phase2" ELSE IF phase = 2 THEN "phase3" ELSE "phase4"
            /\ UNCHANGED <<result, exit_code>>

FailRun(phase, msgs) ==
    /\ ReturnToMain("false")
    /\ errlog' = errlog \o msgs \o <<PhaseFailed(phase)>>

\* an exception no handler catches leaves run_e2e_test and main
RaiseRun ==
    /\ ReturnToMain("raised")
    /\ errlog' = errlog

-----------------------------------------------------------------------------
(* Phase 1: catalog discovery *)

Policy(kind, id) == [kind |-> kind, id |-> id]
Dataset(kind, id, policy) == [kind |-> kind, id |-> id, policy |-> policy]

\* a catalog body: the JSON class of the body and its "dcat:dataset" member
\* (shape: absent, list, dict, or scalar for any other truthy JSON value)
CatalogBody(json, shape, items) == [json |-> json, shape |-> shape, items |-> items]

DS1 == Dataset("object", "asset-1", Policy("object", "policy-1"))
DS2 == Dataset("object", "asset-2", Policy("object", "policy-2"))
DS1NoPolicy == Dataset("object", "asset-1", Policy("absent", NONE))

\* the catalogs the remote answers with in a run
RunCatalogBodies ==
    { CatalogBody("invalid", "absent", <<>>),
      CatalogBody("falsy", "absent", <<>>),
      CatalogBody("nonobject", "absent", <<>>),
      CatalogBody("object", "absent", <<>>),
      CatalogBody("object", "list", <<>>),
      CatalogBody("object", "scalar", <<>>),
      CatalogBody("object", "dict", <<DS1>>),
      CatalogBody("object", "list", <<DS1, DS2>>),
      CatalogBody("object", "list", <<DS2, DS1NoPolicy>>) }

CatalogDeliveries == Deliveries(CommonStatuses, RunCatalogBodies)

\* request_catalog: the parsed catalog, or None
request_catalog(r) ==
    IF r.success /\ r.status_code = 200
    THEN IF r.body.json = "invalid"
         THEN [ret |-> "none", log |-> <<Msg("Failed to parse catalog response", 0)>>]
         ELSE [ret |-> "catalog", log |-> <<>>]
    ELSE [ret |-> "none", log |-> <<Msg("Failed to retrieve catalog", r.status_code)>>]

RECURSIVE dataset_ids(_)
dataset_ids(datasets) ==
    IF datasets = <<>> THEN <<>>
    ELSE <<Head(datasets).id>> \o dataset_ids(Tail(datasets))

\* the `for dataset in datasets` loop of extract_offer_from_catalog from
\* position i on
RECURSIVE scan_datasets(_, _, _)
scan_datasets(datasets, i, target) ==
    IF i > Len(datasets)
    THEN [ret |-> "none", offer |-> NoOffer,
          log |-> <<MsgIds("Asset not found in catalog", dataset_ids(datasets))>>]
    ELSE LET dataset == datasets[i] IN
         IF dataset.kind # "object"
         THEN [ret |-> "raise", offer |-> NoOffer, log |-> <<>>]
         ELSE IF dataset.id = target
         THEN IF dataset.policy.kind = "nonobject"
              THEN [ret |-> "raise", offer |-> NoOffer, log |-> <<>>]
              ELSE IF Falsy(dataset.policy.id)
              THEN [ret |-> "none", offer |-> NoOffer,
                    log |-> <<Msg("Asset has no policy", 0)>>]
              ELSE [ret |-> "offer",
                    offer |-> [asset_id |-> dataset.id, policy |-> dataset.policy],
                    log |-> <<>>]
         ELSE scan_datasets(datasets, i + 1, target)

\* extract_offer_from_catalog that takes the policy of the first dataset
extract_offer_from_catalog_first_policy(catalog, target) ==
    IF catalog.shape = "absent" \/ (catalog.shape \in {"list", "dict"} /\ catalog.items = <<>>)
    THEN [ret |-> "none", offer |-> NoOffer,
          log |-> <<Msg("Catalog contains no datasets", 0)>>]
    ELSE IF catalog.shape = "scalar"
    THEN [ret |-> "none", offer |-> NoOffer,
          log |-> <<Msg("Invalid dataset format in catalog", 0)>>]
    ELSE LET found == scan_datasets(catalog.items, 1, target) IN
         IF found.ret = "offer"
         THEN [found EXCEPT !.offer.policy = catalog.items[1].policy]
         ELSE found

\* extract_offer_from_catalog that accepts a list of datasets only
extract_offer_from_catalog_list_only(catalog, target) ==
    IF catalog.shape = "absent" \/ (catalog.shape \in {"list", "dict"} /\ catalog.items = <<>>)
    THEN [ret |-> "none", offer |-> NoOffer,
          log |-> <<Msg("Catalog contains no datasets", 0)>>]
    ELSE IF catalog.shape # "list"
    THEN [ret |-> "none", offer |-> NoOffer,
          log |-> <<Msg("Invalid dataset format in catalog", 0)>>]
    ELSE scan_datasets(catalog.items, 1, target)

\* extract_offer_from_catalog(catalog, target_asset_id)
extract_offer_from_catalog(catalog, target) ==
    IF catalog.shape = "absent" \/ (catalog.shape \in {"list", "dict"} /\ catalog.items = <<>>)
    THEN [ret |-> "none", offer |-> NoOffer,
          log |-> <<Msg("Catalog contains no datasets", 0)>>]
    ELSE IF catalog.shape = "scalar"
    THEN [ret |-> "none", offer |-> NoOffer,
          log |-> <<Msg("Invalid dataset format in catalog", 0)>>]
    ELSE scan_datasets(catalog.items, 1, target)

\* phase_1_catalog_discovery(config, target_asset_id)
phase_1_catalog_discovery(r, target) ==
    LET c == request_catalog(r) IN
    IF c.ret = "none" THEN [ret |-> "none", offer |-> NoOffer, log |-> c.log]
    ELSE IF r.body.json = "falsy" THEN [ret |-> "none", offer |-> NoOffer, log |-> <<>>]
    ELSE IF r.body.json = "nonobject" THEN [ret |-> "raise", offer |-> NoOffer, log |-> <<>>]
    ELSE extract_offer_from_catalog(r.body, target)

\* run_e2e_test that asks for the catalog again after a failed discovery
Phase1CatalogDiscovery_retrying ==
    /\ script = "e2e_test"
    /\ pc = "phase1"
    /\ \E d \in CatalogDeliveries :
         LET r == make_http_request(d)
             p1 == phase_1_catalog_discovery(r, target_asset_id)
         IN /\ resp' = r
            /\ offer' = p1.offer
            /\ IF p1.ret = "offer"
               THEN /\ pc' = "phase2"
                    /\ UNCHANGED <<result, errlog, exit_code>>
               ELSE IF p1.ret = "raise" THEN RaiseRun
               ELSE UNCHANGED <<pc, result, errlog, exit_code>>
    /\ nreq' = Count("catalog", 1)
    /\ lastreq' = "catalog"
    /\ UNCHANGED <<argVars, conn, prereqVars, negotiation_id, agreement_id, transfer_id,
                   edr_details, pollVars, sent>>

Phase1CatalogDiscovery ==
    /\ script = "e2e_test"
    /\ pc = "phase1"
    /\ \E d \in CatalogDeliveries :
         LET r == make_http_request(d)
             p1 == phase_1_catalog_discovery(r, target_asset_id)
         IN /\ resp' = r
            /\ offer' = p1.offer
            /\ IF p1.ret = "offer"
               THEN /\ pc' = "phase2"
                    /\ UNCHANGED <<result, errlog, exit_code>>
               ELSE IF p1.ret = "raise" THEN RaiseRun
               ELSE FailRun(1, p1.log)
    /\ nreq' = Count("catalog", 1)
    /\ lastreq' = "catalog"
    /\ UNCHANGED <<argVars, conn, prereqVars, negotiation_id, agreement_id, transfer_id,
                   edr_details, pollVars, sent>>

-----------------------------------------------------------------------------
(* Phase 2: contract negotiation *)

NEGOTIATION_IDS == {NONE, "", "negotiation-1"}
AGREEMENT_IDS == {NONE, "", "agreement-1"}
TRANSFER_IDS == {NONE, "", "transfer-1"}

\* bodies of the create endpoints: the JSON class and the "@id" member
IdBodies(ids) ==
    {[json |-> j, id |-> NONE] : j \in {"invalid", "nonobject"}}
    \cup {[json |-> "object", id |-> i] : i \in ids}

\* bodies of the negotiation status endpoint
NegotiationStatusBodies ==
    {[json |-> j, state |-> NONE, contractAgreementId |-> NONE] :
        j \in {"invalid", "nonobject"}}
    \cup {[json |-> "object", state |-> st, contractAgreementId |-> a] :
            st \in {NONE, "REQUESTING", STATE_FINALIZED, STATE_TERMINATED},
            a \in AGREEMENT_IDS}

\* bodies of the transfer status endpoint
TransferStatusBodies ==
    {[json |-> j, state |-> NONE] : j \in {"invalid", "nonobject"}}
    \cup {[json |-> "object", state |-> st] :
            st \in {NONE, "REQUESTING", STATE_STARTED, STATE_TERMINATED}}

\* the request body built by initiate_contract_negotiation
negotiation_request(asset_id, policy) ==
    [target |-> asset_id, assigner |-> PROVIDER_DID, policy |-> policy]

\* initiate_contract_negotiation that takes any answer as an accepted request
initiate_contract_negotiation_ignoring_status(r) ==
    IF r.success /\ r.status_code = 200
    THEN IF r.body.json = "invalid"
         THEN [ret |-> "none", id |-> NONE,
               log |-> <<Msg("Failed to parse negotiation response", 0)>>]
         ELSE IF r.body.json = "nonobject"
         THEN [ret |-> "raise", id |-> NONE, log |-> <<>>]
         ELSE [ret |-> "id", id |-> r.body.id, log |-> <<>>]
    ELSE [ret |-> "id", id |-> "negotiation-1", log |-> <<>>]

\* initiate_contract_negotiation after its request
initiate_contract_negotiation(r) ==
    IF r.success /\ r.status_code = 200
    THEN IF r.body.json = "invalid"
         THEN [ret |-> "none", id |-> NONE,
               log |-> <<Msg("Failed to parse negotiation response", 0)>>]
         ELSE IF r.body.json = "nonobject"
         THEN [ret |-> "raise", id |-> NONE, log |-> <<>>]
         ELSE [ret |-> "id", id |-> r.body.id, log |-> <<>>]
    ELSE [ret |-> "none", id |-> NONE,
          log |-> <<Msg("Failed to initiate negotiation", r.status_code)>>]

\* the state a status response reports, None when it reports none
ReportedState(fetched, body) ==
    IF fetched /\ body.json = "object" THEN body.state ELSE NONE

\* a status response the negotiation and transfer polls accept as fetched
Fetched200(r) == r.success /\ r.status_code = 200

\* the loop written as range(1, max): one iteration short
HasNextAttempt_short(a, max) == a < max - 1

\* whether the `for attempt in range(1, max + 1)` loop has a next iteration
HasNextAttempt(a, max) == a < max

\* whether the loop iteration that found the state still in progress sleeps
SleepsAfterPending(a, max) == TRUE

\* what one fetch fed to a poll: a fetch error, or the class of the reported
\* state under the poll's classifier (success and failure states; any other
\* state is pending)
Fed(fetched, body, successState, failureStates) ==
    IF ~fetched \/ body.json # "object"
    THEN "fetch_error"
    ELSE IF body.state = successState THEN "success"
    ELSE IF body.state \in failureStates THEN "failure"
    ELSE "pending"

\* the bookkeeping of one loop iteration: the fetch, the sleep after a
\* pending result, and the step to the next attempt
PollIteration(l, max, r, p, fedclass, state) ==
    /\ resp' = r
    /\ lastreq' = l
    /\ fed' = Append(fed, fedclass)
    /\ fetches' = fetches + 1
    /\ sleeps' = IF p.outcome = "pending" /\ SleepsAfterPending(attempt, max)
                 THEN sleeps + 1 ELSE sleeps
    /\ attempt' = IF p.outcome = "pending" THEN attempt + 1 ELSE attempt
    /\ poll_last' = [poll_last EXCEPT ![l] =
                        [outcome |-> IF p.outcome = "pending"
                                     THEN IF HasNextAttempt(attempt, max)
                                          THEN "polling" ELSE "timeout"
                                     ELSE p.outcome,
                         state |-> state,
                         value |-> p.value]]
    /\ UNCHANGED <<loop, nreq>>

\* entry of a poll function: `for attempt in range(1, ...)` starts at 1
EnterPoll(l) ==
    /\ loop' = l
    /\ attempt' = 1
    /\ fetches' = 0
    /\ sleeps' = 0
    /\ fed' = <<>>

Phase2Initiate ==
    /\ script = "e2e_test"
    /\ pc = "phase2"
    /\ sent' = [sent EXCEPT !.neg_init = negotiation_request(offer.asset_id, offer.policy)]
    /\ \E d \in Deliveries(CommonStatuses, IdBodies(NEGOTIATION_IDS)) :
         LET r == make_http_request(d)
             init == initiate_contract_negotiation(r)
         IN /\ resp' = r
            /\ negotiation_id' = init.id
            /\ IF init.ret = "raise"
               THEN RaiseRun /\ UNCHANGED <<loop, attempt, fetches, sleeps, fed>>
               ELSE IF Falsy(init.id)
               THEN FailRun(2, init.log) /\ UNCHANGED <<loop, attempt, fetches, sleeps, fed>>
               ELSE /\ pc' = "poll_negotiation"
                    /\ EnterPoll("negotiation")
                    /\ UNCHANGED <<result, errlog, exit_code>>
    /\ nreq' = Count("neg_init", 1)
    /\ lastreq' = "neg_init"
    /\ UNCHANGED <<argVars, conn, prereqVars, offer, agreement_id, transfer_id,
                   edr_details, poll_last>>

\* poll_negotiation_status that keeps polling after TERMINATED
poll_negotiation_status_ignoring_terminated(r) ==
    IF r.success /\ r.status_code = 200
    THEN IF r.body.json = "invalid"
         THEN [outcome |-> "parse_error", value |-> NONE,
               log |-> <<Msg("Failed to parse negotiation status", 0)>>]
         ELSE IF r.body.json = "nonobject"
         THEN [outcome |-> "raise", value |-> NONE, log |-> <<>>]
         ELSE IF r.body.state = STATE_FINALIZED
         THEN [outcome |-> "success", value |-> r.body.contractAgreementId,
               log |-> <<>>]
         ELSE [outcome |-> "pending", value |-> NONE, log |-> <<>>]
    ELSE [outcome |-> "fetch_error", value |-> NONE,
          log |-> <<Msg("Failed to query negotiation", r.status_code)>>]

\* poll_negotiation_status that returns the id of the negotiation
poll_negotiation_status_returning_negotiation_id(r) ==
    IF r.success /\ r.status_code = 200
    THEN IF r.body.json = "invalid"
         THEN [outcome |-> "parse_error", value |-> NONE,
               log |-> <<Msg("Failed to parse negotiation status", 0)>>]
         ELSE IF r.body.json = "nonobject"
         THEN [outcome |-> "raise", value |-> NONE, log |-> <<>>]
         ELSE IF r.body.state = STATE_FINALIZED
         THEN [outcome |-> "success", value |-> negotiation_id, log |-> <<>>]
         ELSE IF r.body.state = STATE_TERMINATED
         THEN [outcome |-> "failure", value |-> NONE,
               log |-> <<Msg("Negotiation terminated", 0)>>]
         ELSE [outcome |-> "pending", value |-> NONE, log |-> <<>>]
    ELSE [outcome |-> "fetch_error", value |-> NONE,
          log |-> <<Msg("Failed to query negotiation", r.status_code)>>]

\* poll_negotiation_status that returns an agreement id as soon as a response
\* carries one, whatever the state
poll_negotiation_status_id_in_any_state(r) ==
    IF r.success /\ r.status_code = 200
    THEN IF r.body.json = "invalid"
         THEN [outcome |-> "parse_error", value |-> NONE,
               log |-> <<Msg("Failed to parse negotiation status", 0)>>]
         ELSE IF r.body.json = "nonobject"
         THEN [outcome |-> "raise", value |-> NONE, log |-> <<>>]
         ELSE IF r.body.state = STATE_FINALIZED \/ ~Falsy(r.body.contractAgreementId)
         THEN [outcome |-> "success", value |-> r.body.contractAgreementId,
               log |-> <<>>]
         ELSE IF r.body.state = STATE_TERMINATED
         THEN [outcome |-> "failure", value |-> NONE,
               log |-> <<Msg("Negotiation terminated", 0)>>]
         ELSE [outcome |-> "pending", value |-> NONE, log |-> <<>>]
    ELSE [outcome |-> "fetch_error", value |-> NONE,
          log |-> <<Msg("Failed to query negotiation", r.status_code)>>]

\* one iteration of the loop of poll_negotiation_status, after its request
poll_negotiation_status(r) ==
    IF r.success /\ r.status_code = 200
    THEN IF r.body.json = "invalid"
         THEN [outcome |-> "parse_error", value |-> NONE,
               log |-> <<Msg("Failed to parse negotiation status", 0)>>]
         ELSE IF r.body.json = "nonobject"
         THEN [outcome |-> "raise", value |-> NONE, log |-> <<>>]
         ELSE IF r.body.state = STATE_FINALIZED
         THEN [outcome |-> "success", value |-> r.body.contractAgreementId,
               log |-> <<>>]
         ELSE IF r.body.state = STATE_TERMINATED
         THEN [outcome |-> "failure", value |-> NONE,
               log |-> <<Msg("Negotiation terminated", 0)>>]
         ELSE [outcome |-> "pending", value |-> NONE, log |-> <<>>]
    ELSE [outcome |-> "fetch_error", value |-> NONE,
          log |-> <<Msg("Failed to query negotiation", r.status_code)>>]

Phase2Poll ==
    /\ script = "e2e_test"
    /\ pc = "poll_negotiation"
    /\ attempt <= max_attempts
    /\ \E d \in Deliveries(CommonStatuses, NegotiationStatusBodies) :
         LET r == make_http_request(d)
             p == poll_negotiation_status(r)
         IN /\ PollIteration("negotiation", max_attempts, r, p,
                              Fed(Fetched200(r), r.body, STATE_FINALIZED, {STATE_TERMINATED}),
                              ReportedState(Fetched200(r), r.body))
            /\ sent' = [sent EXCEPT !.neg_status = negotiation_id]
            /\ agreement_id' = p.value
            /\ CASE p.outcome = "raise" -> RaiseRun
                 [] p.outcome = "pending" ->
                      IF HasNextAttempt(attempt, max_attempts)
                      THEN UNCHANGED <<pc, result, errlog, exit_code>>
                      ELSE FailRun(2, <<Msg("Negotiation polling timed out", 0)>>)
                 [] p.outcome = "success" ->
                      IF Falsy(p.value) THEN FailRun(2, <<>>)
                      ELSE /\ pc' = "phase3"
                           /\ UNCHANGED <<result, errlog, exit_code>>
                 [] OTHER -> FailRun(2, p.log)
    /\ UNCHANGED <<argVars, conn, prereqVars, offer, negotiation_id, transfer_id,
                   edr_details>>

-----------------------------------------------------------------------------
(* Phase 3: transfer process *)

\* the request body with the two ids exchanged
transfer_request_swapped(asset_id, agreement) ==
    [contractId |-> asset_id, assetId |-> agreement]

\* the request body built by initiate_transfer_process
transfer_request(asset_id, agreement) ==
    [contractId |-> agreement, assetId |-> asset_id]

\* initiate_transfer_process after its request
initiate_transfer_process(r) ==
    IF r.success /\ r.status_code = 200
    THEN IF r.body.json = "invalid"
         THEN [ret |-> "none", id |-> NONE,
               log |-> <<Msg("Failed to parse transfer response", 0)>>]
         ELSE IF r.body.json = "nonobject"
         THEN [ret |-> "raise", id |-> NONE, log |-> <<>>]
         ELSE [ret |-> "id", id |-> r.body.id, log |-> <<>>]
    ELSE [ret |-> "none", id |-> NONE,
          log |-> <<Msg("Failed to initiate transfer", r.status_code)>>]

Phase3Initiate ==
    /\ script = "e2e_test"
    /\ pc = "phase3"
    /\ sent' = [sent EXCEPT !.transfer_init = transfer_request(offer.asset_id, agreement_id)]
    /\ \E d \in Deliveries(CommonStatuses, IdBodies(TRANSFER_IDS)) :
         LET r == make_http_request(d)
             init == initiate_transfer_process(r)
         IN /\ resp' = r
            /\ transfer_id' = init.id
            /\ IF init.ret = "raise"
               THEN RaiseRun /\ UNCHANGED <<loop, attempt, fetches, sleeps, fed>>
               ELSE IF Falsy(init.id)
               THEN FailRun(3, init.log) /\ UNCHANGED <<loop, attempt, fetches, sleeps, fed>>
               ELSE /\ pc' = "poll_transfer"
                    /\ EnterPoll("transfer")
                    /\ UNCHANGED <<result, errlog, exit_code>>
    /\ nreq' = Count("transfer_init", 1)
    /\ lastreq' = "transfer_init"
    /\ UNCHANGED <<argVars, conn, prereqVars, offer, negotiation_id, agreement_id,
                   edr_details, poll_last>>

\* poll_transfer_status that retries a failed status query
poll_transfer_status_retrying(r) ==
    IF r.success /\ r.status_code = 200
    THEN IF r.body.json = "invalid"
         THEN [outcome |-> "parse_error", value |-> NONE,
               log |-> <<Msg("Failed to parse transfer status", 0)>>]
         ELSE IF r.body.json = "nonobject"
         THEN [outcome |-> "raise", value |-> NONE, log |-> <<>>]
         ELSE IF r.body.state = STATE_STARTED
         THEN [outcome |-> "success", value |-> "True", log |-> <<>>]
         ELSE IF r.body.state = STATE_TERMINATED
         THEN [outcome |-> "failure", value |-> NONE,
               log |-> <<Msg("Transfer terminated", 0)>>]
         ELSE [outcome |-> "pending", value |-> NONE, log |-> <<>>]
    ELSE [outcome |-> "pending", value |-> NONE, log |-> <<>>]

\* poll_transfer_status that keeps polling after TERMINATED
poll_transfer_status_ignoring_terminated(r) ==
    IF r.success /\ r.status_code = 200
    THEN IF r.body.json = "invalid"
         THEN [outcome |-> "parse_error", value |-> NONE,
               log |-> <<Msg("Failed to parse transfer status", 0)>>]
         ELSE IF r.body.json = "nonobject"
         THEN [outcome |-> "raise", value |-> NONE, log |-> <<>>]
         ELSE IF r.body.state = STATE_STARTED
         THEN [outcome |-> "success", value |-> "True", log |-> <<>>]
         ELSE [outcome |-> "pending", value |-> NONE, log |-> <<>>]
    ELSE [outcome |-> "fetch_error", value |-> NONE,
          log |-> <<Msg("Failed to query transfer", r.status_code)>>]

\* poll_transfer_status that takes every terminal state for STARTED
poll_transfer_status_terminated_as_started(r) ==
    IF r.success /\ r.status_code = 200
    THEN IF r.body.json = "invalid"
         THEN [outcome |-> "parse_error", value |-> NONE,
               log |-> <<Msg("Failed to parse transfer status", 0)>>]
         ELSE IF r.body.json = "nonobject"
         THEN [outcome |-> "raise", value |-> NONE, log |-> <<>>]
         ELSE IF r.body.state \in {STATE_STARTED, STATE_TERMINATED}
         THEN [outcome |-> "success", value |-> "True", log |-> <<>>]
         ELSE [outcome |-> "pending", value |-> NONE, log |-> <<>>]
    ELSE [outcome |-> "fetch_error", value |-> NONE,
          log |-> <<Msg("Failed to query transfer", r.status_code)>>]

\* one iteration of the loop of poll_transfer_status, after its request
poll_transfer_status(r) ==
    IF r.success /\ r.status_code = 200
    THEN IF r.body.json = "invalid"
         THEN [outcome |-> "parse_error", value |-> NONE,
               log |-> <<Msg("Failed to parse transfer status", 0)>>]
         ELSE IF r.body.json = "nonobject"
         THEN [outcome |-> "raise", value |-> NONE, log |-> <<>>]
         ELSE IF r.body.state = STATE_STARTED
         THEN [outcome |-> "success", value |-> "True", log |-> <<>>]
         ELSE IF r.body.state = STATE_TERMINATED
         THEN [outcome |-> "failure", value |-> NONE,
               log |-> <<Msg("Transfer terminated", 0)>>]
         ELSE [outcome |-> "pending", value |-> NONE, log |-> <<>>]
    ELSE [outcome |-> "fetch_error", value |-> NONE,
          log |-> <<Msg("Failed to query transfer", r.status_code)>>]

Phase3Poll ==
    /\ script = "e2e_test"
    /\ pc = "poll_transfer"
    /\ attempt <= max_attempts
    /\ \E d \in Deliveries(CommonStatuses, TransferStatusBodies) :
         LET r == make_http_request(d)
             p == poll_transfer_status(r)
         IN /\ PollIteration("transfer", max_attempts, r, p,
                              Fed(Fetched200(r), r.body, STATE_STARTED, {STATE_TERMINATED}),
                              ReportedState(Fetched200(r), r.body))
            /\ sent' = [sent EXCEPT !.transfer_status = transfer_id]
            /\ CASE p.outcome = "raise" -> RaiseRun
                 [] p.outcome = "pending" ->
                      IF HasNextAttempt(attempt, max_attempts)
                      THEN UNCHANGED <<pc, result, errlog, exit_code>>
                      ELSE FailRun(3, <<Msg("Transfer polling timed out", 0)>>)
                 [] p.outcome = "success" ->
                      /\ pc' = "phase4"
                      /\ UNCHANGED <<result, errlog, exit_code>>
                 [] OTHER -> FailRun(3, p.log)
    /\ UNCHANGED <<argVars, conn, prereqVars, offer, negotiation_id, agreement_id,
                   transfer_id, edr_details>>

-----------------------------------------------------------------------------
(* Phase 4: data access through the EDR *)

Edr(kind, endpoint, authCode, authKey) ==
    [kind |-> kind, endpoint |-> endpoint, authCode |-> authCode, authKey |-> authKey]

EdrBody(json, items) == [json |-> json, items |-> items]

EDR1 == Edr("object", "http://dp/public", "tok", "Authorization")
EDR2 == Edr("object", "http://dp/other", "tok-2", "X-Auth")
EDRNoKey == Edr("object", "http://dp/public", "tok", NONE)

\* the EDR lists the remote answers with in a run
RunEdrBodies ==
    { EdrBody("invalid", <<>>),
      EdrBody("other", <<>>),
      EdrBody("list", <<>>),
      EdrBody("list", <<EDR1>>),
      EdrBody("list", <<EDR2, EDR1>>),
      EdrBody("list", <<EDRNoKey>>),
      EdrBody("list", <<Edr("object", NONE, "tok", "Authorization")>>),
      EdrBody("list", <<Edr("object", "http://dp/public", "", "Authorization")>>),
      EdrBody("list", <<Edr("falsy", NONE, NONE, NONE)>>),
      EdrBody("list", <<Edr("nonobject", NONE, NONE, NONE)>>) }

\* retrieve_edr that takes the last entry of the list
retrieve_edr_last_entry(r) ==
    IF r.success /\ r.status_code = 200
    THEN IF r.body.json = "invalid"
         THEN [ret |-> "none", log |-> <<Msg("Failed to parse EDR response", 0)>>]
         ELSE IF r.body.json = "list" /\ Len(r.body.items) > 0
         THEN [ret |-> "edr", edr |-> r.body.items[Len(r.body.items)], log |-> <<>>]
         ELSE [ret |-> "none", log |-> <<Msg("No EDR found for transfer", 0)>>]
    ELSE [ret |-> "none", log |-> <<Msg("Failed to retrieve EDR", r.status_code)>>]

\* retrieve_edr after its request: the first entry of the list, or None
retrieve_edr(r) ==
    IF r.success /\ r.status_code = 200
    THEN IF r.body.json = "invalid"
         THEN [ret |-> "none", log |-> <<Msg("Failed to parse EDR response", 0)>>]
         ELSE IF r.body.json = "list" /\ Len(r.body.items) > 0
         THEN [ret |-> "edr", edr |-> r.body.items[1], log |-> <<>>]
         ELSE [ret |-> "none", log |-> <<Msg("No EDR found for transfer", 0)>>]
    ELSE [ret |-> "none", log |-> <<Msg("Failed to retrieve EDR", r.status_code)>>]

\* extract_edr_details(edr)
extract_edr_details(edr) ==
    IF edr.kind = "nonobject"
    THEN [ret |-> "raise", details |-> NoEdrDetails, log |-> <<>>]
    ELSE IF Falsy(edr.endpoint) \/ Falsy(edr.authCode)
    THEN [ret |-> "none", details |-> NoEdrDetails,
          log |-> <<Msg("EDR missing required fields (endpoint or authCode)", 0)>>]
    ELSE [ret |-> "details",
          details |-> [endpoint |-> edr.endpoint, auth_code |-> edr.authCode],
          log |-> <<>>]

\* phase_4_data_access up to the call of access_data_via_edr
edr_phase(r) ==
    LET e == retrieve_edr(r) IN
    IF e.ret = "none" THEN [ret |-> "none", details |-> NoEdrDetails, log |-> e.log]
    ELSE IF e.edr.kind = "falsy"
    THEN [ret |-> "none", details |-> NoEdrDetails, log |-> <<>>]
    ELSE extract_edr_details(e.edr)

Phase4RetrieveEdr ==
    /\ script = "e2e_test"
    /\ pc = "phase4"
    /\ sent' = [sent EXCEPT !.edr = transfer_id]
    /\ \E d \in Deliveries(CommonStatuses, RunEdrBodies) :
         LET r == make_http_request(d)
             e == edr_phase(r)
         IN /\ resp' = r
            /\ edr_details' = e.details
            /\ IF e.ret = "raise" THEN RaiseRun
               ELSE IF e.ret = "none" THEN FailRun(4, e.log)
               ELSE /\ pc' = "access_data"
                    /\ UNCHANGED <<result, errlog, exit_code>>
    /\ nreq' = Count("edr", 1)
    /\ lastreq' = "edr"
    /\ UNCHANGED <<argVars, conn, prereqVars, offer, negotiation_id, agreement_id,
                   transfer_id, pollVars>>

\* bodies of the data endpoint: the response text is empty or not
DataBodies == {[json |-> "text", empty |-> e] : e \in BOOLEAN}

\* the request of access_data_via_edr
data_request(endpoint, auth_code) ==
    [endpoint |-> endpoint, header |-> "Authorization", value |-> auth_code]

\* access_data_via_edr after its request: the response text, or None
access_data_via_edr(r) ==
    IF r.success /\ r.status_code = 200
    THEN [ret |-> IF r.body.empty THEN "" ELSE "data", log |-> <<>>]
    ELSE [ret |-> NONE, log |-> <<Msg("Failed to access data", r.status_code)>>]

\* the ids of the "Test Summary" run_e2e_test logs on success
TestSummary ==
    [asset |-> offer.asset_id, agreement |-> agreement_id, transfer |-> transfer_id]

Phase4AccessData ==
    /\ script = "e2e_test"
    /\ pc = "access_data"
    /\ sent' = [sent EXCEPT !.data = data_request(edr_details.endpoint,
                                                  edr_details.auth_code)]
    /\ \E d \in Deliveries(DataStatuses, DataBodies) :
         LET r == make_http_request(d)
             data == access_data_via_edr(r)
         IN /\ resp' = r
            /\ IF Falsy(data.ret) THEN FailRun(4, data.log)
               ELSE /\ ReturnToMain("true")
                    /\ errlog' = errlog
    /\ nreq' = Count("data", 1)
    /\ lastreq' = "data"
    /\ UNCHANGED <<argVars, conn, prereqVars, runVars, pollVars>>

-----------------------------------------------------------------------------
(* Scripts that call urllib directly, and the make_request helpers *)

\* urllib.request.urlopen: returns the response for a 2xx status, raises
\* HTTPError for any other status and URLError when the service is unreachable
urlopen(raw) ==
    IF raw.net = "urlerror" THEN [kind |-> "URLError", status |-> 0, body |-> NoBody]
    ELSE IF raw.status >= 200 /\ raw.status <= 299
         THEN [kind |-> "response", status |-> raw.status, body |-> raw.body]
         ELSE [kind |-> "HTTPError", status |-> raw.status, body |-> raw.body]

\* provider/http_utils.make_request
make_request(raw) ==
    LET u == urlopen(raw) IN
    IF u.kind = "response"
    THEN [success |-> u.status \in {200, 201, 204}, status_code |-> u.status, body |-> u.body]
    ELSE IF u.kind = "HTTPError"
    THEN [success |-> u.status = 409, status_code |-> u.status, body |-> u.body]
    ELSE [success |-> FALSE, status_code |-> 0, body |-> NoBody]

\* issuer/http_utils.make_request
issuer_make_request(raw) ==
    LET u == urlopen(raw) IN
    IF u.kind = "response"
    THEN [success |-> u.status \in {200, 201}, status_code |-> u.status, body |-> u.body]
    ELSE IF u.kind = "HTTPError"
    THEN [success |-> u.status = 409, status_code |-> u.status, body |-> u.body]
    ELSE [success |-> FALSE, status_code |-> 0, body |-> NoBody]

\* what urlopen saw, in the shape of a make_http_request result
AsResp(u) == [success |-> u.kind = "response", status_code |-> u.status, body |-> u.body]

\* statuses a create endpoint may answer with
CreateStatuses == {200, 201, 204, 400, 409, 500}

CreateDeliveries ==
    {[net |-> "urlerror", status |-> 0, body |-> NoBody]}
    \cup {[net |-> "ok", status |-> st, body |-> NoBody] : st \in CreateStatuses}

\* a script's main returns its exit code
ExitScript(ok) ==
    /\ pc' = "exited"
    /\ result' = IF ok THEN "true" ELSE "false"
    /\ exit_code' = IF ok THEN 0 ELSE 1

\* main of a script up to its first request: load_config returns None when the
\* configuration is invalid
LoadConfig(sc, next) ==
    /\ script = sc
    /\ pc = "main"
    /\ \E config_ok \in BOOLEAN :
         IF ~config_ok
         THEN /\ ExitScript(FALSE)
              /\ errlog' = Append(errlog, Msg("Failed to load configuration", 0))
              /\ item' = item
         ELSE /\ pc' = next
              /\ item' = 1
              /\ UNCHANGED <<exit_code, errlog, result>>
    /\ UNCHANGED <<argVars, conn, check_idx, all_passed, seed_step, all_successful,
                   all_steps_successful, last_create, runVars, pollVars,
                   nreq, sent, lastreq, resp>>

-----------------------------------------------------------------------------
(* provider/seed_participant.py *)

ASSET_DEFINITIONS == <<"asset-1", "asset-2">>
POLICY_DEFINITIONS == <<"require-membership", "require-dataprocessor", "require-sensitive">>
CONTRACT_DEFINITIONS == <<"member-and-dataprocessor-def", "sensitive-only-def">>
VERIFY_ENDPOINTS == <<"assets", "policies", "contracts">>

SeedList(step) ==
    CASE step = "assets" -> ASSET_DEFINITIONS
      [] step = "policies" -> POLICY_DEFINITIONS
      [] step = "contracts" -> CONTRACT_DEFINITIONS
      [] OTHER -> VERIFY_ENDPOINTS

\* create_asset, create_policy and create_contract_definition after their
\* request: `success and status_code in [200, 204, 409]`
create_asset(r) == r.success /\ r.status_code \in {200, 204, 409}
create_policy(r) == r.success /\ r.status_code \in {200, 204, 409}
create_contract_definition(r) == r.success /\ r.status_code \in {200, 204, 409}

CreateOf(step, r) ==
    CASE step = "assets" -> create_asset(r)
      [] step = "policies" -> create_policy(r)
      [] OTHER -> create_contract_definition(r)

\* the step after `step` in seed_all_components
NextSeedStep(step) ==
    CASE step = "assets" -> "policies"
      [] step = "policies" -> "contracts"
      [] OTHER -> "verify"

SeedMain == LoadConfig("seed_participant", "availability")

\* check_provider_availability, then the dispatch on the component
SeedAvailability ==
    /\ script = "seed_participant"
    /\ pc = "availability"
    /\ \E d \in HealthDeliveries :
         LET r == make_http_request(d) IN
         /\ resp' = r
         /\ IF r.success /\ r.status_code = 200
            THEN /\ pc' = "seed"
                 /\ seed_step' = IF component = "all" THEN "assets" ELSE component
                 /\ UNCHANGED <<result, exit_code, errlog>>
            ELSE /\ ExitScript(FALSE)
                 /\ seed_step' = seed_step
                 /\ errlog' = Append(errlog,
                        Msg("Provider Control Plane is not available", r.status_code))
    /\ nreq' = Count("health", 1)
    /\ lastreq' = "health"
    /\ UNCHANGED <<argVars, conn, check_idx, all_passed, item, all_successful,
                   all_steps_successful, last_create, runVars, pollVars, sent>>

\* the end of seed_assets, seed_policies, seed_contracts or verify_seeded_data
\* with return value ok, back in seed_all_components or in main
SeedStepDone(ok) ==
    IF component # "all"
    THEN /\ ExitScript(ok)
         /\ UNCHANGED <<seed_step, item, all_steps_successful>>
         /\ all_successful' = ok
    ELSE IF seed_step = "verify"
    THEN /\ ExitScript(all_steps_successful)
         /\ UNCHANGED <<seed_step, item, all_steps_successful>>
         /\ all_successful' = ok
    ELSE /\ seed_step' = NextSeedStep(seed_step)
         /\ item' = 1
         /\ all_successful' = TRUE
         /\ all_steps_successful' = (all_steps_successful /\ ok)
         /\ UNCHANGED <<pc, result, exit_code>>

\* one iteration of the loop of seed_assets, seed_policies or seed_contracts
SeedCreate ==
    /\ script = "seed_participant"
    /\ pc = "seed"
    /\ seed_step \in {"assets", "policies", "contracts"}
    /\ \E d \in CreateDeliveries :
         LET r == make_http_request(d)
             ret == CreateOf(seed_step, r)
             ok == all_successful /\ ret
         IN /\ resp' = r
            /\ last_create' = [kind |-> seed_step, status |-> d.status, ret |-> ret]
            /\ errlog' = IF ret THEN errlog
                         ELSE Append(errlog, Msg("Failed to create " \o seed_step, item))
            /\ IF item < Len(SeedList(seed_step))
               THEN /\ item' = item + 1
                    /\ all_successful' = ok
                    /\ UNCHANGED <<pc, seed_step, all_steps_successful, result, exit_code>>
               ELSE SeedStepDone(ok)
    /\ nreq' = Count("create", 1)
    /\ lastreq' = "create"
    /\ UNCHANGED <<argVars, conn, check_idx, all_passed, runVars, pollVars, sent>>

\* one iteration of the loop of verify_seeded_data
SeedVerify ==
    /\ script = "seed_participant"
    /\ pc = "seed"
    /\ seed_step = "verify"
    /\ \E d \in ListDeliveries :
         LET r == make_http_request(d)
             ok == all_successful /\ (r.success /\ r.status_code = 200)
         IN /\ resp' = r
            /\ errlog' = IF r.success /\ r.status_code = 200 THEN errlog
                         ELSE Append(errlog, Msg("verification failed", item))
            /\ IF item < Len(VERIFY_ENDPOINTS)
               THEN /\ item' = item + 1
                    /\ all_successful' = ok
                    /\ UNCHANGED <<pc, seed_step, all_steps_successful, result, exit_code>>
               ELSE SeedStepDone(ok)
    /\ nreq' = Count("verify", 1)
    /\ lastreq' = "verify"
    /\ UNCHANGED <<argVars, conn, check_idx, all_passed, last_create, runVars, pollVars, sent>>

-----------------------------------------------------------------------------
(* issuer/create_participants.py and issuer/register_issuer_participant.py *)

PARTICIPANTS == <<"Consumer Corp", "Provider Corp">>

\* create_participant_holder after urlopen
create_participant_holder(raw) ==
    LET u == urlopen(raw) IN
    IF u.kind = "response" THEN u.status = 200 \/ u.status = 201
    ELSE IF u.kind = "HTTPError" THEN u.status = 409
    ELSE FALSE

CreateParticipantsMain == LoadConfig("create_participants", "create_participants")

\* one iteration of the loop of create_all_participants; all_successful
\* stands for failure_count == 0
CreateParticipant ==
    /\ script = "create_participants"
    /\ pc = "create_participants"
    /\ \E d \in CreateDeliveries :
         LET ret == create_participant_holder(d)
             ok == all_successful /\ ret
         IN /\ resp' = AsResp(urlopen(d))
            /\ last_create' = [kind |-> "participant", status |-> d.status, ret |-> ret]
            /\ all_successful' = ok
            /\ errlog' = IF ret THEN errlog
                         ELSE Append(errlog, Msg("error creating participant", item))
            /\ IF item < Len(PARTICIPANTS)
               THEN /\ item' = item + 1
                    /\ UNCHANGED <<pc, result, exit_code>>
               ELSE /\ item' = item
                    /\ ExitScript(ok)
    /\ nreq' = Count("create", 1)
    /\ lastreq' = "create"
    /\ UNCHANGED <<argVars, conn, check_idx, all_passed, seed_step, all_steps_successful,
                   runVars, pollVars, sent>>

RegisterIssuerMain == LoadConfig("register_issuer_participant", "register")

\* register_issuer_participant: `return success` of make_request
RegisterIssuerParticipant ==
    /\ script = "register_issuer_participant"
    /\ pc = "register"
    /\ \E d \in CreateDeliveries :
         LET r == issuer_make_request(d) IN
         /\ resp' = r
         /\ last_create' = [kind |-> "issuer_participant", status |-> d.status,
                            ret |-> r.success]
         /\ errlog' = IF r.success THEN errlog
                      ELSE Append(errlog, Msg("Issuer participant registration failed", d.status))
         /\ ExitScript(r.success)
    /\ nreq' = Count("create", 1)
    /\ lastreq' = "create"
    /\ UNCHANGED <<argVars, conn, check_idx, all_passed, seed_step, item, all_successful,
                   all_steps_successful, runVars, pollVars, sent>>

-----------------------------------------------------------------------------
(* issuer/add_participant.py *)

\* validate_did on the DID split at its colons: did.startswith("did:web:"),
\* which leaves at least three parts
validate_did(did) ==
    /\ Len(did) >= 3 /\ did[1] = "did" /\ did[2] = "web"

\* how cursor.execute can end: the statement runs, it raises and leaves the
\* transaction usable (an error on the client side), or it raises and leaves
\* the transaction in the failed state, where every later statement raises
ExecuteOutcomes(c) == IF c.aborted THEN {"abort"} ELSE {"ok", "error", "abort"}

\* cursor.execute of a SELECT
execute_select(c, stmt, o) ==
    [c EXCEPT !.executed = Append(@, stmt),
              !.aborted = @ \/ o = "abort",
              !.failed = IF o # "ok" THEN @ \cup {stmt} ELSE @]

\* cursor.execute of INSERT ... ON CONFLICT (holder_id) DO NOTHING
execute_insert(c, stmt, table, o) ==
    [c EXCEPT !.executed = Append(@, stmt),
              !.pending = IF o = "ok" /\ table \notin c.tables THEN @ \cup {table} ELSE @,
              !.aborted = @ \/ o = "abort",
              !.failed = IF o # "ok" THEN @ \cup {stmt} ELSE @]

\* conn.rollback()
rollback(c) == [c EXCEPT !.pending = {}, !.aborted = FALSE, !.rollbacks = @ + 1]

\* conn.commit()
commit(c) == [c EXCEPT !.tables = @ \cup c.pending, !.pending = {}, !.commits = @ + 1]

\* disconnect(): closing the connection discards the open transaction
disconnect(c) == [c EXCEPT !.open = FALSE, !.pending = {}, !.aborted = FALSE]

\* an attestation insert that failed without the rollback
AttestationFailed_without_rollback(c) == c

\* `self.conn.rollback(); return False` after a failed attestation insert
AttestationFailed(c) == rollback(c)

\* the return of add_participant into main, and main's `finally`
AddParticipantReturn(c, ok, msgs) ==
    /\ conn' = disconnect(c)
    /\ ExitScript(ok)
    /\ errlog' = errlog \o msgs

\* main up to registration.connect()
AddParticipantConnect ==
    /\ script = "add_participant"
    /\ pc = "main"
    /\ \E connected \in BOOLEAN :
         IF connected
         THEN /\ conn' = [conn EXCEPT !.open = TRUE]
              /\ pc' = "add_participant"
              /\ UNCHANGED <<result, exit_code, errlog>>
         ELSE AddParticipantReturn(conn, FALSE, <<Msg("Database connection failed", 0)>>)
    /\ UNCHANGED <<argVars, prereqVars, runVars, pollVars, nreq, sent, lastreq, resp>>

\* add_participant up to the call of add_holder: validate_did and
\* participant_exists
AddParticipantExists ==
    /\ script = "add_participant"
    /\ pc = "add_participant"
    /\ IF ~validate_did(participant_did)
       THEN AddParticipantReturn(conn, FALSE, <<Msg("Invalid DID format", 0)>>)
       ELSE \E o \in ExecuteOutcomes(conn) :
              LET c == execute_select(conn, "SQL_CHECK_HOLDER", o)
                  exists == o = "ok" /\ "holders" \in conn.tables
              IN IF exists
                 THEN AddParticipantReturn(c, TRUE, <<>>)
                 ELSE /\ conn' = c
                      /\ pc' = "add_holder"
                      /\ UNCHANGED <<result, exit_code, errlog>>
    /\ UNCHANGED <<argVars, prereqVars, runVars, pollVars, nreq, sent, lastreq, resp>>

\* add_holder and `if not self.add_holder(...): return False`
AddHolder ==
    /\ script = "add_participant"
    /\ pc = "add_holder"
    /\ \E o \in ExecuteOutcomes(conn) :
         LET c == execute_insert(conn, "SQL_INSERT_HOLDER", "holders", o) IN
         IF o = "ok"
         THEN /\ conn' = c
              /\ pc' = "add_membership_attestation"
              /\ UNCHANGED <<result, exit_code, errlog>>
         ELSE AddParticipantReturn(c, FALSE, <<Msg("Failed to add holder", 0)>>)
    /\ UNCHANGED <<argVars, prereqVars, runVars, pollVars, nreq, sent, lastreq, resp>>

\* add_membership_attestation and the branch on its result
AddMembershipAttestation ==
    /\ script = "add_participant"
    /\ pc = "add_membership_attestation"
    /\ \E o \in ExecuteOutcomes(conn) :
         LET c == execute_insert(conn, "SQL_INSERT_MEMBERSHIP",
                                 "membership_attestations", o) IN
         IF o = "ok"
         THEN /\ conn' = c
              /\ pc' = "add_dataprocessor_attestation"
              /\ UNCHANGED <<result, exit_code, errlog>>
         ELSE AddParticipantReturn(AttestationFailed(c), FALSE,
                  <<Msg("Failed to add membership attestation", 0)>>)
    /\ UNCHANGED <<argVars, prereqVars, runVars, pollVars, nreq, sent, lastreq, resp>>

\* add_dataprocessor_attestation and the branch on its result
AddDataprocessorAttestation ==
    /\ script = "add_participant"
    /\ pc = "add_dataprocessor_attestation"
    /\ \E o \in ExecuteOutcomes(conn) :
         LET c == execute_insert(conn, "SQL_INSERT_DATA_PROCESSOR",
                                 "data_processor_attestations", o) IN
         IF o = "ok"
         THEN /\ conn' = c
              /\ pc' = "commit"
              /\ UNCHANGED <<result, exit_code, errlog>>
         ELSE AddParticipantReturn(AttestationFailed(c), FALSE,
                  <<Msg("Failed to add data processor attestation", 0)>>)
    /\ UNCHANGED <<argVars, prereqVars, runVars, pollVars, nreq, sent, lastreq, resp>>

\* `self.conn.commit(); return True`; a commit that raises is rolled back by
\* the except branch of add_participant
AddParticipantCommit ==
    /\ script = "add_participant"
    /\ pc = "commit"
    /\ \E committed \in BOOLEAN :
         IF committed
         THEN AddParticipantReturn(commit(conn), TRUE, <<>>)
         ELSE AddParticipantReturn(rollback(conn), FALSE,
                  <<Msg("Failed to add participant", 0)>>)
    /\ UNCHANGED <<argVars, prereqVars, runVars, pollVars, nreq, sent, lastreq, resp>>

-----------------------------------------------------------------------------
(* provider/register_provider_participant.py *)

\* bodies the Identity Hub may send with a 2xx answer to the registration:
\* nothing, text that is not JSON, JSON that is not an object, and an object
\* with or without a clientSecret
RegistrationBodies ==
    {NoBody}
    \cup {[json |-> j, clientSecret |-> NONE] : j \in {"invalid", "nonobject"}}
    \cup {[json |-> "object", clientSecret |-> s] : s \in {NONE, "", "secret-1"}}

RegistrationDeliveries ==
    {[net |-> "urlerror", status |-> 0, body |-> NoBody]}
    \cup {[net |-> "ok", status |-> st, body |-> NoBody] : st \in {204, 400, 409, 500}}
    \cup {[net |-> "ok", status |-> st, body |-> b] :
             st \in {200, 201}, b \in RegistrationBodies}

\* the client secret register_provider_participant takes from a successful
\* answer that is not 409; NONE where it returns False instead
client_secret_of(r) ==
    IF r.body.json = "object" /\ ~Falsy(r.body.clientSecret)
    THEN r.body.clientSecret
    ELSE NONE

\* store_client_secret_in_vault: `if success: return True`
store_client_secret_in_vault(r) == r.success

RegisterProviderMain == LoadConfig("register_provider_participant", "register_provider")

\* register_provider_participant up to the call of
\* store_client_secret_in_vault
RegisterProviderParticipant ==
    /\ script = "register_provider_participant"
    /\ pc = "register_provider"
    /\ \E d \in RegistrationDeliveries :
         LET r == make_request(d) IN
         /\ resp' = r
         /\ IF ~r.success
            THEN /\ ExitScript(FALSE)
                 /\ errlog' = Append(errlog,
                        Msg("Failed to register provider participant", d.status))
            ELSE IF r.status_code = 409
            THEN /\ ExitScript(TRUE)
                 /\ errlog' = errlog
            ELSE IF r.body = NoBody
            THEN /\ ExitScript(FALSE)
                 /\ errlog' = Append(errlog,
                        Msg("No response body received from Identity Hub", 0))
            ELSE IF r.body.json = "invalid"
            THEN /\ ExitScript(FALSE)
                 /\ errlog' = Append(errlog,
                        Msg("Failed to parse Identity Hub response", 0))
            ELSE IF r.body.json # "object"
            THEN /\ ExitScript(FALSE)
                 /\ errlog' = Append(errlog, Msg("Unexpected response format", 0))
            ELSE IF client_secret_of(r) = NONE
            THEN /\ ExitScript(FALSE)
                 /\ errlog' = Append(errlog,
                        Msg("No clientSecret in Identity Hub response", 0))
            ELSE /\ pc' = "store_client_secret_in_vault"
                 /\ UNCHANGED <<result, exit_code, errlog>>
    /\ nreq' = Count("register_provider", 1)
    /\ lastreq' = "register_provider"
    /\ UNCHANGED <<argVars, conn, check_idx, all_passed, seed_step, item, all_successful,
                   all_steps_successful, last_create, runVars, pollVars, sent>>

\* store_client_secret_in_vault and the return of
\* register_provider_participant
StoreClientSecretInVault ==
    /\ script = "register_provider_participant"
    /\ pc = "store_client_secret_in_vault"
    /\ sent' = [sent EXCEPT !.vault_secret = client_secret_of(resp)]
    /\ \E d \in CreateDeliveries :
         LET r == make_request(d) IN
         /\ last_create' = [kind |-> "vault_secret", status |-> d.status,
                            ret |-> store_client_secret_in_vault(r)]
         /\ errlog' = IF store_client_secret_in_vault(r) THEN errlog
                      ELSE Append(errlog,
                               Msg("Failed to store client secret in Vault", d.status))
         /\ ExitScript(store_client_secret_in_vault(r))
    /\ nreq' = Count("vault_secret", 1)
    /\ lastreq' = "vault_secret"
    /\ UNCHANGED <<argVars, conn, check_idx, all_passed, seed_step, item, all_successful,
                   all_steps_successful, runVars, pollVars, resp>>

-----------------------------------------------------------------------------
(* provider/request_credentials.py *)

Url(scheme, netloc, path) == [scheme |-> scheme, netloc |-> netloc, path |-> path]

\* no Location header (or an empty one)
NoLocation == Url("none", "", <<>>)

\* config.provider_ih_identity_url: http://host:port
IDENTITY_URL == Url("http", "provider:7081", <<>>)

STATUS_PATH == <<"v1alpha", "participants", "credentials", "request-1">>
API_IDENTITY == <<"api", "identity">>

\* the Location headers the identity service answers with; a relative
\* location has the scheme ""
Locations ==
    { NoLocation,
      Url("http", "identityhub:7081", STATUS_PATH),
      Url("https", "identityhub:7081", STATUS_PATH),
      Url("", "", STATUS_PATH),
      Url("http", "identityhub:7081", API_IDENTITY \o STATUS_PATH),
      Url("", "", API_IDENTITY \o STATUS_PATH) }

\* the rewriting of the Location header in request_credentials_from_issuer
fix_location(location_url) ==
    IF location_url.scheme = "http"
    THEN Url("http", location_url.netloc, API_IDENTITY \o location_url.path)
    ELSE IF location_url.scheme = "" /\ location_url.path # <<>>
            /\ location_url.path[1] = "v1alpha"
    THEN Url(IDENTITY_URL.scheme, IDENTITY_URL.netloc, location_url.path)
    ELSE location_url

\* what the credentials request endpoint can deliver: a 2xx response carries
\* a Location header
CredentialRequestDeliveries ==
    {[net |-> "urlerror", status |-> 0, body |-> NoBody, location |-> NoLocation]}
    \cup {[net |-> "ok", status |-> st, body |-> NoBody, location |-> NoLocation] :
            st \in {400, 409, 500}}
    \cup {[net |-> "ok", status |-> st, body |-> NoBody, location |-> l] :
            st \in {200, 201}, l \in Locations}

\* bodies of the credential status resource; `state` is its "status" member
CredentialStatusBodies ==
    {[json |-> j, state |-> NONE] : j \in {"invalid", "nonobject"}}
    \cup {[json |-> "object", state |-> st] :
            st \in {NONE, "PENDING", "ISSUED", "FAILED", "REJECTED"}}

\* what the status resource can deliver: every 2xx response carries a body
CredentialStatusDeliveries ==
    {[net |-> "urlerror", status |-> 0, body |-> NoBody]}
    \cup {[net |-> "ok", status |-> st, body |-> NoBody] : st \in {404, 500}}
    \cup {[net |-> "ok", status |-> st, body |-> b] :
            st \in {200, 201}, b \in CredentialStatusBodies}

\* a request to a relative URL never leaves urllib (ValueError)
UnknownUrlType == [net |-> "urlerror", status |-> 0, body |-> NoBody]

\* a response together with its Location header (response_headers.get("Location"))
WithLocation(r, location) ==
    [success |-> r.success, status_code |-> r.status_code, body |-> r.body,
     location |-> location]

\* poll_credential_status that keeps polling a rejected request
poll_credential_status_rejected_pending(u) ==
    IF u.kind = "response"
    THEN IF u.body.json # "object"
         THEN [outcome |-> "unexpected_error", value |-> NONE,
               log |-> <<Msg("Unexpected error polling credential status", 0)>>]
         ELSE IF u.body.state = "ISSUED"
         THEN [outcome |-> "success", value |-> "True", log |-> <<>>]
         ELSE IF u.body.state = "FAILED"
         THEN [outcome |-> "failure", value |-> NONE,
               log |-> <<Msg("Credential request failed with status", 0)>>]
         ELSE [outcome |-> "pending", value |-> NONE, log |-> <<>>]
    ELSE [outcome |-> "fetch_error", value |-> NONE,
          log |-> <<Msg("error polling credential status", u.status)>>]

CredentialsMain == LoadConfig("request_credentials", "credentials_request")

\* request_credentials_from_issuer that fails without a Location header
CredentialsRequest_location_required ==
    /\ script = "request_credentials"
    /\ pc = "credentials_request"
    /\ \E d \in CredentialRequestDeliveries :
         LET u == urlopen(d) IN
         /\ resp' = WithLocation(AsResp(u), d.location)
         /\ IF u.kind # "response"
            THEN /\ ExitScript(FALSE)
                 /\ errlog' = Append(errlog, Msg("error requesting credentials", u.status))
                 /\ UNCHANGED <<sent, loop, attempt, fetches, sleeps, fed>>
            ELSE IF d.location = NoLocation
            THEN /\ ExitScript(FALSE)
                 /\ errlog' = Append(errlog,
                        Msg("No Location header in response - cannot poll status", 0))
                 /\ UNCHANGED <<sent, loop, attempt, fetches, sleeps, fed>>
            ELSE /\ pc' = "poll_credential"
                 /\ sent' = [sent EXCEPT !.credential_status = fix_location(d.location)]
                 /\ EnterPoll("credential")
                 /\ UNCHANGED <<result, exit_code, errlog>>
    /\ nreq' = Count("credentials_request", 1)
    /\ lastreq' = "credentials_request"
    /\ UNCHANGED <<argVars, conn, prereqVars, runVars, poll_last>>

\* request_credentials_from_issuer that polls the status after a failed request
CredentialsRequest_polling_after_error ==
    /\ script = "request_credentials"
    /\ pc = "credentials_request"
    /\ \E d \in CredentialRequestDeliveries :
         LET u == urlopen(d) IN
         /\ resp' = WithLocation(AsResp(u), d.location)
         /\ IF u.kind = "response" /\ d.location = NoLocation
            THEN /\ ExitScript(TRUE)
                 /\ errlog' = Append(errlog,
                        Msg("No Location header in response - cannot poll status", 0))
                 /\ UNCHANGED <<sent, loop, attempt, fetches, sleeps, fed>>
            ELSE /\ pc' = "poll_credential"
                 /\ sent' = [sent EXCEPT !.credential_status = fix_location(d.location)]
                 /\ EnterPoll("credential")
                 /\ UNCHANGED <<result, exit_code, errlog>>
    /\ nreq' = Count("credentials_request", 1)
    /\ lastreq' = "credentials_request"
    /\ UNCHANGED <<argVars, conn, prereqVars, runVars, poll_last>>

\* request_credentials_from_issuer up to the call of poll_credential_status
CredentialsRequest ==
    /\ script = "request_credentials"
    /\ pc = "credentials_request"
    /\ \E d \in CredentialRequestDeliveries :
         LET u == urlopen(d) IN
         /\ resp' = WithLocation(AsResp(u), d.location)
         /\ IF u.kind # "response"
            THEN /\ ExitScript(FALSE)
                 /\ errlog' = Append(errlog, Msg("error requesting credentials", u.status))
                 /\ UNCHANGED <<sent, loop, attempt, fetches, sleeps, fed>>
            ELSE IF d.location = NoLocation
            THEN /\ ExitScript(TRUE)
                 /\ errlog' = Append(errlog,
                        Msg("No Location header in response - cannot poll status", 0))
                 /\ UNCHANGED <<sent, loop, attempt, fetches, sleeps, fed>>
            ELSE /\ pc' = "poll_credential"
                 /\ sent' = [sent EXCEPT !.credential_status = fix_location(d.location)]
                 /\ EnterPoll("credential")
                 /\ UNCHANGED <<result, exit_code, errlog>>
    /\ nreq' = Count("credentials_request", 1)
    /\ lastreq' = "credentials_request"
    /\ UNCHANGED <<argVars, conn, prereqVars, runVars, poll_last>>

\* one iteration of the loop of poll_credential_status, after urlopen
poll_credential_status(u) ==
    IF u.kind = "response"
    THEN IF u.body.json # "object"
         THEN [outcome |-> "unexpected_error", value |-> NONE,
               log |-> <<Msg("Unexpected error polling credential status", 0)>>]
         ELSE IF u.body.state = "ISSUED"
         THEN [outcome |-> "success", value |-> "True", log |-> <<>>]
         ELSE IF u.body.state \in {"FAILED", "REJECTED"}
         THEN [outcome |-> "failure", value |-> NONE,
               log |-> <<Msg("Credential request failed with status", 0)>>]
         ELSE [outcome |-> "pending", value |-> NONE, log |-> <<>>]
    ELSE [outcome |-> "fetch_error", value |-> NONE,
          log |-> <<Msg("error polling credential status", u.status)>>]

CredentialsPoll ==
    /\ script = "request_credentials"
    /\ pc = "poll_credential"
    /\ attempt <= max_attempts
    /\ \E d \in IF sent.credential_status.scheme = "" THEN {UnknownUrlType}
                ELSE CredentialStatusDeliveries :
         LET u == urlopen(d)
             p == poll_credential_status(u)
         IN /\ PollIteration("credential", max_attempts, AsResp(u), p,
                   Fed(u.kind = "response", u.body, "ISSUED", {"FAILED", "REJECTED"}),
                   ReportedState(u.kind = "response", u.body))
            /\ CASE p.outcome = "pending" ->
                      IF HasNextAttempt(attempt, max_attempts)
                      THEN UNCHANGED <<pc, result, errlog, exit_code>>
                      ELSE /\ ExitScript(FALSE)
                           /\ errlog' = Append(errlog,
                                Msg("Credential status polling timed out", 0))
                 [] p.outcome = "success" ->
                      /\ ExitScript(TRUE)
                      /\ errlog' = errlog
                 [] OTHER ->
                      /\ ExitScript(FALSE)
                      /\ errlog' = errlog \o p.log
    /\ UNCHANGED <<argVars, conn, prereqVars, runVars, sent>>

-----------------------------------------------------------------------------
Next ==
    \/ E2EMain
    \/ CheckServiceHealth
    \/ CheckSeeded
    \/ Phase1CatalogDiscovery
    \/ Phase2Initiate
    \/ Phase2Poll
    \/ Phase3Initiate
    \/ Phase3Poll
    \/ Phase4RetrieveEdr
    \/ Phase4AccessData
    \/ CredentialsMain
    \/ CredentialsRequest
    \/ CredentialsPoll
    \/ SeedMain
    \/ SeedAvailability
    \/ SeedCreate
    \/ SeedVerify
    \/ CreateParticipantsMain
    \/ CreateParticipant
    \/ RegisterIssuerMain
    \/ RegisterIssuerParticipant
    \/ AddParticipantConnect
    \/ AddParticipantExists
    \/ AddHolder
    \/ AddMembershipAttestation
    \/ AddDataprocessorAttestation
    \/ AddParticipantCommit
    \/ RegisterProviderMain
    \/ RegisterProviderParticipant
    \/ StoreClientSecretInVault

Spec == Init /\ [][Next]_vars

-----------------------------------------------------------------------------
(* issuer/verify_deployment.py: wait_for_health *)

\* check_health_endpoint that takes every answered request as healthy
check_health_endpoint_any_response(u) == u.kind = "response"

\* check_health_endpoint: healthy on a 200 answer; another 2xx status and
\* every exception give False
check_health_endpoint(u) == u.kind = "response" /\ u.status = 200

\* what the health endpoint can deliver
HealthEndpointDeliveries ==
    {[net |-> "urlerror", status |-> 0, body |-> NoBody]}
    \cup {[net |-> "ok", status |-> st, body |-> NoBody] : st \in {200, 204, 503}}

\* what one health check fed to the loop: an exception of the request, a
\* healthy answer, or an answer that is not healthy yet
FedHealth(u) ==
    IF u.kind # "response" THEN "fetch_error"
    ELSE IF u.status = 200 THEN "success" ELSE "pending"

\* the error seed_issuer.run_seeding_sequence logs when a step returned False
SeedStepFailed(step) == Msg(step \o " failed", 0)

\* one iteration of the loop of wait_for_health, and its return into
\* verify_deployment.main or seed_issuer.run_seeding_sequence
WaitForHealth ==
    /\ script \in {"verify_deployment", "seed_issuer"}
    /\ pc = "wait_for_health"
    /\ attempt <= max_attempts
    /\ \E d \in HealthEndpointDeliveries :
         LET u == urlopen(d)
             healthy == check_health_endpoint(u)
             next == HasNextAttempt(attempt, max_attempts)
         IN /\ resp' = AsResp(u)
            /\ fed' = Append(fed, FedHealth(u))
            /\ sleeps' = IF ~healthy /\ attempt < max_attempts THEN sleeps + 1 ELSE sleeps
            /\ attempt' = IF healthy THEN attempt ELSE attempt + 1
            /\ poll_last' = [poll_last EXCEPT !["wait_for_health"] =
                   [outcome |-> IF healthy THEN "success"
                                ELSE IF next THEN "polling" ELSE "timeout",
                    state |-> NONE, value |-> NONE]]
            /\ IF healthy
               THEN /\ errlog' = errlog
                    /\ IF script = "seed_issuer"
                       THEN pc' = "check_did_server" /\ UNCHANGED <<result, exit_code>>
                       ELSE ExitScript(TRUE)
               ELSE IF next THEN UNCHANGED <<pc, result, exit_code, errlog>>
               ELSE /\ ExitScript(FALSE)
                    /\ errlog' = Append(errlog, Msg("Service did not become healthy", 0))
                                 \o IF script = "seed_issuer"
                                    THEN <<SeedStepFailed("wait_for_health")>>
                                    ELSE <<>>
    /\ fetches' = fetches + 1
    /\ lastreq' = "wait_for_health"
    /\ UNCHANGED <<argVars, conn, prereqVars, runVars, loop, nreq, sent>>

-----------------------------------------------------------------------------
(* The polling functions called on their own, with the attempt limit of the
   module set to a value m *)

MaxPollAttempts == 3

PollPc == [negotiation |-> "poll_negotiation", transfer |-> "poll_transfer",
           credential |-> "poll_credential", wait_for_health |-> "wait_for_health"]

PollScript == [negotiation |-> "e2e_test", transfer |-> "e2e_test",
               credential |-> "request_credentials",
               wait_for_health |-> "verify_deployment"]

\* the status URL handed to poll_credential_status
STATUS_URL == Url("http", "identityhub:7081", API_IDENTITY \o STATUS_PATH)

PollInit ==
    /\ \E l \in Loops, m \in 0..MaxPollAttempts :
         /\ loop = l
         /\ script = PollScript[l]
         /\ max_attempts = m
         /\ negotiation_id = IF l = "negotiation" THEN "negotiation-1" ELSE NONE
         /\ transfer_id = IF l = "transfer" THEN "transfer-1" ELSE NONE
         /\ sent = IF l = "credential"
                   THEN [Unsent EXCEPT !.credential_status = STATUS_URL]
                   ELSE Unsent
    /\ pc = "call"
    /\ participant_did = NoDid
    /\ conn = NoConn
    /\ skip_prerequisites = TRUE
    /\ target_asset_id = DEFAULT_TARGET_ASSET_ID
    /\ component = "all"
    /\ seed_step = "none"
    /\ item = 0
    /\ all_successful = TRUE
    /\ all_steps_successful = TRUE
    /\ last_create = NoCreate
    /\ check_idx = 0
    /\ all_passed = TRUE
    /\ offer = NoOffer
    /\ agreement_id = NONE
    /\ edr_details = NoEdrDetails
    /\ attempt = 0
    /\ fetches = 0
    /\ sleeps = 0
    /\ fed = <<>>
    /\ poll_last = [l \in Loops |-> NoPollLast]
    /\ nreq = [k \in ReqKinds |-> 0]
    /\ lastreq = "none"
    /\ resp = NoResp
    /\ errlog = <<>>
    /\ result = "none"
    /\ exit_code = -1

\* the call of a polling function: `for attempt in range(1, m + 1)` runs its
\* body unless the range is empty, and then the code after the loop runs
PollCall ==
    /\ pc = "call"
    /\ IF HasNextAttempt(0, max_attempts)
       THEN /\ pc' = PollPc[loop]
            /\ EnterPoll(loop)
            /\ UNCHANGED <<poll_last, result, exit_code, errlog>>
       ELSE /\ poll_last' = [poll_last EXCEPT ![loop] =
                                [outcome |-> "timeout", state |-> NONE, value |-> NONE]]
            /\ ExitScript(FALSE)
            /\ errlog' = Append(errlog, Msg("polling timed out", 0))
            /\ attempt' = 1
            /\ UNCHANGED <<loop, fetches, sleeps, fed>>
    /\ UNCHANGED <<argVars, conn, prereqVars, runVars, nreq, sent, lastreq, resp>>

PollNext ==
    \/ PollCall
    \/ Phase2Poll
    \/ Phase3Poll
    \/ CredentialsPoll
    \/ WaitForHealth

PollSpec == PollInit /\ [][PollNext]_vars

-----------------------------------------------------------------------------
(* issuer/seed_issuer.py: run_seeding_sequence, with the attempt limit of
   wait_for_health set to a value m; the time.sleep(DELAY_BETWEEN_STEPS)
   between the steps changes no state *)

\* the create steps of run_seeding_sequence in their order, and the two
\* definitions each of them creates
SEED_CREATE_STEPS == <<"create_participants", "create_attestations", "create_credentials">>
SEED_STEP_ITEMS == 2

\* the step after a create step ("done": the final summary)
NextSeedingStep(step) ==
    IF step = "create_participants" THEN "create_attestations"
    ELSE IF step = "create_attestations" THEN "create_credentials"
    ELSE "done"

\* what the DID server can deliver
DidServerDeliveries ==
    {[net |-> "urlerror", status |-> 0, body |-> NoBody]}
    \cup {[net |-> "ok", status |-> st, body |-> NoBody] : st \in {204, 404, 500}}
    \cup {[net |-> "ok", status |-> 200, body |-> [json |-> j]] :
             j \in {"invalid", "nonobject", "object"}}

\* check_did_server that takes every answer of the server as a DID document
check_did_server_any_answer(u) == u.kind = "response"

\* check_did_server: status 200 with a body that json.loads parses and that
\* has a get method; every exception gives False
check_did_server(u) ==
    u.kind = "response" /\ u.status = 200 /\ u.body.json = "object"

SeedIssuerInit ==
    /\ script = "seed_issuer"
    /\ max_attempts \in 1..MaxPollAttempts
    /\ pc = "main"
    /\ participant_did = NoDid
    /\ conn = NoConn
    /\ skip_prerequisites = FALSE
    /\ target_asset_id = DEFAULT_TARGET_ASSET_ID
    /\ component = "all"
    /\ seed_step = "none"
    /\ item = 0
    /\ all_successful = TRUE
    /\ all_steps_successful = TRUE
    /\ last_create = NoCreate
    /\ check_idx = 0
    /\ all_passed = TRUE
    /\ offer = NoOffer
    /\ negotiation_id = NONE
    /\ agreement_id = NONE
    /\ transfer_id = NONE
    /\ edr_details = NoEdrDetails
    /\ loop = "none"
    /\ attempt = 0
    /\ fetches = 0
    /\ sleeps = 0
    /\ fed = <<>>
    /\ poll_last = [l \in Loops |-> NoPollLast]
    /\ nreq = [k \in ReqKinds |-> 0]
    /\ sent = Unsent
    /\ lastreq = "none"
    /\ resp = NoResp
    /\ errlog = <<>>
    /\ result = "none"
    /\ exit_code = -1

\* run_seeding_sequence up to the first health check
SeedIssuerLoadConfig ==
    /\ script = "seed_issuer"
    /\ pc = "main"
    /\ \E config_ok \in BOOLEAN :
         IF ~config_ok
         THEN /\ ExitScript(FALSE)
              /\ errlog' = Append(errlog, SeedStepFailed("load_config"))
              /\ UNCHANGED <<seed_step, pollVars>>
         ELSE /\ pc' = "wait_for_health"
              /\ seed_step' = "wait_for_health"
              /\ EnterPoll("wait_for_health")
              /\ UNCHANGED <<poll_last, exit_code, errlog, result>>
    /\ UNCHANGED <<argVars, conn, check_idx, all_passed, item, all_successful,
                   all_steps_successful, last_create, runVars, nreq, sent, lastreq, resp>>

\* check_did_server and `if not check_did_server(): return False`
SeedIssuerCheckDidServer ==
    /\ script = "seed_issuer"
    /\ pc = "check_did_server"
    /\ \E d \in DidServerDeliveries :
         LET u == urlopen(d) IN
         /\ resp' = AsResp(u)
         /\ IF check_did_server(u)
            THEN /\ pc' = "create_participants"
                 /\ seed_step' = "create_participants"
                 /\ item' = 1
                 /\ UNCHANGED <<result, exit_code, errlog>>
            ELSE /\ ExitScript(FALSE)
                 /\ errlog' = Append(errlog, SeedStepFailed("check_did_server"))
                 /\ UNCHANGED <<seed_step, item>>
    /\ nreq' = Count("did_server", 1)
    /\ lastreq' = "did_server"
    /\ UNCHANGED <<argVars, conn, check_idx, all_passed, all_successful,
                   all_steps_successful, last_create, runVars, pollVars, sent>>

\* one iteration of the loop of create_all_participants,
\* create_all_attestations or create_all_credentials (all_successful stands
\* for failure_count == 0), and after the last one the test of the step's
\* result in run_seeding_sequence; create_attestation_definition and
\* create_credential_definition treat the answer as
\* create_participant_holder does
SeedIssuerCreate ==
    /\ script = "seed_issuer"
    /\ pc = seed_step
    /\ \E i \in 1..Len(SEED_CREATE_STEPS) : seed_step = SEED_CREATE_STEPS[i]
    /\ \E d \in CreateDeliveries :
         LET ret == create_participant_holder(d)
             ok == all_successful /\ ret
         IN /\ resp' = AsResp(urlopen(d))
            /\ last_create' = [kind |-> seed_step, status |-> d.status, ret |-> ret]
            /\ errlog' = errlog
                          \o (IF ret THEN <<>> ELSE <<Msg("error creating definition", item)>>)
                          \o (IF item = SEED_STEP_ITEMS /\ ~ok
                              THEN <<SeedStepFailed(seed_step)>> ELSE <<>>)
            /\ IF item < SEED_STEP_ITEMS
               THEN /\ item' = item + 1
                    /\ all_successful' = ok
                    /\ UNCHANGED <<pc, seed_step, result, exit_code>>
               ELSE IF ~ok
               THEN /\ ExitScript(FALSE)
                    /\ all_successful' = ok
                    /\ UNCHANGED <<seed_step, item>>
               ELSE IF NextSeedingStep(seed_step) = "done"
               THEN /\ ExitScript(TRUE)
                    /\ UNCHANGED <<seed_step, item, all_successful>>
               ELSE /\ pc' = NextSeedingStep(seed_step)
                    /\ seed_step' = NextSeedingStep(seed_step)
                    /\ item' = 1
                    /\ all_successful' = TRUE
                    /\ UNCHANGED <<result, exit_code>>
    /\ nreq' = Count(seed_step, 1)
    /\ lastreq' = seed_step
    /\ UNCHANGED <<argVars, conn, check_idx, all_passed, all_steps_successful,
                   runVars, pollVars, sent>>

SeedIssuerNext ==
    \/ SeedIssuerLoadConfig
    \/ WaitForHealth
    \/ SeedIssuerCheckDidServer
    \/ SeedIssuerCreate

SeedIssuerSpec == SeedIssuerInit /\ [][SeedIssuerNext]_vars

-----------------------------------------------------------------------------
(* extract_offer_from_catalog applied to the catalogs of up to MaxDatasets
   datasets *)

MaxDatasets == 2

\* the "odrl:hasPolicy" member of a dataset: an object with an "@id", an
\* object without one, no member at all, or a value that is no object
PolicyInputs ==
    {Policy("object", "policy-1"), Policy("object", "policy-2"),
     Policy("object", NONE), Policy("absent", NONE), Policy("nonobject", NONE)}

DatasetInputs ==
    {Dataset("object", id, pol) : id \in {"asset-1", "asset-2"}, pol \in PolicyInputs}
    \cup {Dataset("nonobject", NONE, Policy("absent", NONE))}

SeqsUpTo(S, n) == UNION {[1..k -> S] : k \in 0..n}

\* catalogs by their "dcat:dataset" member: absent, a scalar, one dataset
\* object (or the empty object), or a list
CatalogInputs ==
    {CatalogBody("object", "absent", <<>>), CatalogBody("object", "scalar", <<>>),
     CatalogBody("object", "dict", <<>>)}
    \cup {CatalogBody("object", "dict", <<d>>) : d \in DatasetInputs}
    \cup {CatalogBody("object", "list", items) :
             items \in SeqsUpTo(DatasetInputs, MaxDatasets)}

CatalogInit ==
    /\ \E catalog \in CatalogInputs, t \in TargetAssetIds :
         /\ resp = [success |-> TRUE, status_code |-> 200, body |-> catalog]
         /\ target_asset_id = t
    /\ script = "e2e_test"
    /\ pc = "extract_offer"
    /\ max_attempts = POLL_MAX_ATTEMPTS
    /\ participant_did = NoDid
    /\ conn = NoConn
    /\ skip_prerequisites = TRUE
    /\ component = "all"
    /\ seed_step = "none"
    /\ item = 0
    /\ all_successful = TRUE
    /\ all_steps_successful = TRUE
    /\ last_create = NoCreate
    /\ check_idx = 0
    /\ all_passed = TRUE
    /\ offer = NoOffer
    /\ negotiation_id = NONE
    /\ agreement_id = NONE
    /\ transfer_id = NONE
    /\ edr_details = NoEdrDetails
    /\ loop = "none"
    /\ attempt = 0
    /\ fetches = 0
    /\ sleeps = 0
    /\ fed = <<>>
    /\ poll_last = [l \in Loops |-> NoPollLast]
    /\ nreq = [k \in ReqKinds |-> 0]
    /\ sent = Unsent
    /\ lastreq = "catalog"
    /\ errlog = <<>>
    /\ result = "none"
    /\ exit_code = -1

\* the call extract_offer_from_catalog(catalog, target_asset_id)
ExtractOffer ==
    /\ pc = "extract_offer"
    /\ LET found == extract_offer_from_catalog(resp.body, target_asset_id)
       IN /\ offer' = found.offer
          /\ errlog' = found.log
          /\ result' = found.ret
    /\ pc' = "returned"
    /\ UNCHANGED <<argVars, conn, prereqVars, negotiation_id, agreement_id, transfer_id,
                   edr_details, pollVars, nreq, sent, lastreq, resp, exit_code>>

CatalogNext == ExtractOffer

CatalogSpec == CatalogInit /\ [][CatalogNext]_vars

-----------------------------------------------------------------------------
(* Properties of the polling loops *)

Last(s) == s[Len(s)]

MaxAttemptsOf(l) ==
    IF l = "credential" THEN CREDENTIAL_POLL_MAX_ATTEMPTS
    ELSE IF l = "wait_for_health" THEN HEALTH_CHECK_MAX_RETRIES
    ELSE POLL_MAX_ATTEMPTS

AllPending(s, n) == \A i \in 1..n : s[i] = "pending"

\* the sequence fed to the running poll ends in a state classified as terminal
FedTerminal == fed # <<>> /\ Last(fed) \in {"success", "failure"}

\* C1: in the negotiation, transfer and credential polls, when the first
\* terminal state (success or failure) of the fed sequence is at position
\* k <= maxAttempts, the poll has returned with that outcome after exactly k
\* fetches, and a poll that returned a terminal outcome fetches no more.
C1_ReturnsAtFirstTerminal ==
    /\ [](loop \in Loops =>
            /\ fetches = Len(fed)
            /\ Len(fed) <= MaxAttemptsOf(loop)
            /\ AllPending(fed, Len(fed) - 1)
            /\ FedTerminal =>
                 /\ pc # PollPc[loop]
                 /\ poll_last[loop].outcome = Last(fed))
    /\ [][\A l \in Loops :
            poll_last[l].outcome \in {"success", "failure"} => lastreq' # l]_vars

\* a negotiation poll that met its first terminal state at the last attempt
C1_Witness ==
    /\ loop = "negotiation"
    /\ Len(fed) = POLL_MAX_ATTEMPTS
    /\ Last(fed) = "success"
    /\ poll_last["negotiation"].outcome = "success"
    /\ pc = "phase3"

\* C2: when every fetch of a poll finds the state pending for maxAttempts
\* fetches, the poll returns Timeout, reported as failure, after exactly
\* maxAttempts fetches; no poll fetches more than maxAttempts times.
C2_TimeoutAfterMaxAttempts ==
    loop \in Loops =>
        /\ fetches <= MaxAttemptsOf(loop)
        /\ (Len(fed) = MaxAttemptsOf(loop) /\ AllPending(fed, Len(fed))) =>
              /\ poll_last[loop].outcome = "timeout"
              /\ pc = "exited" /\ result = "false" /\ exit_code = 1
        /\ poll_last[loop].outcome = "timeout" =>
              /\ fetches = MaxAttemptsOf(loop)
              /\ Len(fed) = MaxAttemptsOf(loop)
              /\ AllPending(fed, Len(fed))

C2_Witness ==
    /\ loop = "credential"
    /\ poll_last["credential"].outcome = "timeout"
    /\ fetches = CREDENTIAL_POLL_MAX_ATTEMPTS
    /\ exit_code = 1

\* the last request was a status fetch that ended without a 200 response
\* carrying a parsable body
FetchFailed200 ==
    /\ lastreq \in Loops
    /\ \/ ~resp.success
       \/ resp.status_code # 200
       \/ resp.body.json = "invalid"

\* the last request was a status fetch that failed: a network error or a
\* non-2xx status, in the negotiation and transfer polls any status other
\* than 200, or a body that is not JSON
FetchFailed ==
    /\ lastreq \in Loops
    /\ \/ ~resp.success
       \/ lastreq # "credential" /\ resp.status_code # 200
       \/ resp.body.json = "invalid"

\* the poll ended with a failure on the attempt of the last fetch, which was
\* neither retried nor followed by a sleep
EndedOnThisFetch ==
    /\ pc = "exited" /\ result = "false" /\ exit_code = 1
    /\ poll_last[lastreq].outcome \in {"fetch_error", "parse_error", "unexpected_error"}
    /\ fetches = Len(fed)
    /\ AllPending(fed, Len(fed) - 1)
    /\ sleeps = Len(fed) - 1

\* C3 as stated: a status fetch answered with anything but a 200 response
\* with a parsable body ends the poll at once, in all three polls.
C3_AsStated == FetchFailed200 => EndedOnThisFetch

\* C3 (amended): a status fetch that fails with a network error, a non-2xx
\* status (any status other than 200 in the negotiation and transfer polls) or
\* an unparsable body ends the poll with a failure on that attempt: no retry,
\* no sleep, no further attempt.
C3_FetchErrorEndsPoll == FetchFailed => EndedOnThisFetch

\* a transfer poll ended by a 201 answer to its third fetch
C3_Witness ==
    /\ lastreq = "transfer"
    /\ resp.status_code = 201
    /\ Len(fed) = 3
    /\ pc = "exited"

-----------------------------------------------------------------------------
(* Properties of run_e2e_test and main *)

E2E == script = "e2e_test"

SeqRange(s) == {s[i] : i \in 1..Len(s)}

\* what each step of the run has returned
PrerequisitesPassed ==
    /\ check_idx = 5 /\ all_passed
    /\ nreq["health"] = 3
    /\ \A k \in {"assets", "policydefinitions", "contractdefinitions", "dataplanes"} :
           nreq[k] = 1
Phase1Succeeded == nreq["catalog"] = 1 /\ offer # NoOffer /\ offer.asset_id = target_asset_id
Phase2Succeeded ==
    /\ nreq["neg_init"] = 1 /\ ~Falsy(negotiation_id)
    /\ poll_last["negotiation"].outcome = "success" /\ ~Falsy(agreement_id)
Phase3Succeeded ==
    /\ nreq["transfer_init"] = 1 /\ ~Falsy(transfer_id)
    /\ poll_last["transfer"].outcome = "success"
EdrRetrieved == nreq["edr"] = 1 /\ edr_details # NoEdrDetails
Phase4Succeeded ==
    /\ EdrRetrieved /\ nreq["data"] = 1 /\ lastreq = "data"
    /\ resp.success /\ resp.status_code = 200 /\ ~resp.body.empty

\* C4: run_e2e_test runs prerequisite check, Catalog Discovery, Contract
\* Negotiation, Transfer Process and Data Access in this order: a phase issues
\* its first request only after the step before it returned success, and no
\* phase runs twice.
C4_FixedPhaseOrder ==
    E2E =>
      /\ nreq["health"] <= 3
      /\ \A k \in ReqKinds \ {"health"} : nreq[k] <= 1
      /\ skip_prerequisites => \A i \in 1..5 : nreq[CheckKinds[i]] = 0
      /\ nreq["catalog"] > 0 => skip_prerequisites \/ PrerequisitesPassed
      /\ nreq["neg_init"] > 0 => Phase1Succeeded
      /\ poll_last["negotiation"] # NoPollLast =>
            nreq["neg_init"] = 1 /\ ~Falsy(negotiation_id)
      /\ nreq["transfer_init"] > 0 => Phase1Succeeded /\ Phase2Succeeded
      /\ poll_last["transfer"] # NoPollLast =>
            nreq["transfer_init"] = 1 /\ ~Falsy(transfer_id)
      /\ nreq["edr"] > 0 => Phase2Succeeded /\ Phase3Succeeded
      /\ nreq["data"] > 0 => Phase3Succeeded /\ EdrRetrieved

\* a run with prerequisite checks that reached the data request
C4_Witness ==
    /\ E2E /\ ~skip_prerequisites
    /\ nreq["data"] = 1
    /\ result = "true"

\* the requests of each phase
PhaseRequests == <<{"catalog"}, {"neg_init", "negotiation"},
                   {"transfer_init", "transfer"}, {"edr", "data"}>>

LaterRequests(phase) ==
    UNION {PhaseRequests[j] : j \in (phase + 1)..4}

\* no request of kind k has been issued
NeverRequested(k) ==
    IF k \in Loops THEN poll_last[k] = NoPollLast ELSE nreq[k] = 0

\* C5: once a phase of run_e2e_test has failed or timed out the run is over:
\* the last request issued is one of the failed phase, no request of a later
\* phase has been issued, and no request of any kind follows.
C5_StopsAtFailure ==
    /\ [](E2E =>
            /\ \A k \in 1..4 :
                 PhaseFailed(k) \in SeqRange(errlog) =>
                    /\ pc = "exited" /\ result = "false"
                    /\ lastreq \in PhaseRequests[k]
                    /\ \A q \in LaterRequests(k) : NeverRequested(q)
            /\ Msg("Prerequisite checks failed", 0) \in SeqRange(errlog) =>
                    /\ pc = "exited" /\ result = "false"
                    /\ lastreq = "dataplanes"
                    /\ \A q \in LaterRequests(0) : NeverRequested(q))
    /\ [][E2E /\ result # "none" =>
            UNCHANGED <<nreq, fetches, lastreq, sent, poll_last>>]_vars

\* a negotiation was created and its poll timed out
C5_Witness ==
    /\ E2E
    /\ PhaseFailed(2) \in SeqRange(errlog)
    /\ poll_last["negotiation"].outcome = "timeout"
    /\ ~Falsy(negotiation_id)

\* messages that tell why a phase failed
PhaseFailureKinds ==
    {"Failed to retrieve catalog", "Failed to parse catalog response",
     "Catalog contains no datasets", "Invalid dataset format in catalog",
     "Asset not found in catalog", "Asset has no policy",
     "Failed to initiate negotiation", "Failed to parse negotiation response",
     "Failed to query negotiation", "Failed to parse negotiation status",
     "Negotiation terminated", "Negotiation polling timed out",
     "Failed to initiate transfer", "Failed to parse transfer response",
     "Failed to query transfer", "Failed to parse transfer status",
     "Transfer terminated", "Transfer polling timed out",
     "Failed to retrieve EDR", "Failed to parse EDR response",
     "No EDR found for transfer",
     "EDR missing required fields (endpoint or authCode)",
     "Failed to access data"}

\* C6: a failed run reports the first phase that failed together with the
\* kind of the error: the entry naming the failed phase follows an entry that
\* tells the kind.
C6_FailureNamesPhaseAndKind ==
    \A k \in 1..4 :
       (E2E /\ result = "false" /\ errlog # <<>> /\ Last(errlog) = PhaseFailed(k)) =>
          /\ Len(errlog) >= 2
          /\ errlog[Len(errlog) - 1].msg \in PhaseFailureKinds

\* C7: values flow forward through a run: the negotiation request carries the
\* asset id and policy Catalog Discovery returned, the transfer request the
\* agreement id negotiation polling returned and the discovered asset id, the
\* status and EDR requests the ids the initiations returned, and the summary of
\* a successful run lists exactly these ids.
C7_ValuesFlowForward ==
    E2E =>
      /\ nreq["neg_init"] > 0 =>
            /\ sent.neg_init.target = offer.asset_id
            /\ sent.neg_init.policy = offer.policy
            /\ offer.asset_id = target_asset_id
      /\ poll_last["negotiation"] # NoPollLast => sent.neg_status = negotiation_id
      /\ nreq["transfer_init"] > 0 =>
            /\ sent.transfer_init.contractId = poll_last["negotiation"].value
            /\ sent.transfer_init.contractId = agreement_id
            /\ sent.transfer_init.assetId = offer.asset_id
      /\ poll_last["transfer"] # NoPollLast => sent.transfer_status = transfer_id
      /\ nreq["edr"] > 0 => sent.edr = transfer_id
      /\ nreq["data"] > 0 =>
            /\ sent.data.endpoint = edr_details.endpoint
            /\ sent.data.value = edr_details.auth_code
      /\ result = "true" =>
            TestSummary = [asset |-> sent.neg_init.target,
                           agreement |-> sent.transfer_init.contractId,
                           transfer |-> sent.edr]

C7_Witness ==
    /\ E2E /\ result = "true"
    /\ TestSummary = [asset |-> "asset-2", agreement |-> "agreement-1",
                      transfer |-> "transfer-1"]

\* C8: main exits with 0 exactly when the prerequisite check (unless skipped)
\* and the four phases succeeded, and with 1 in every other case: a failed
\* phase, a timeout, failed prerequisites or a configuration that did not load.
C8_ExitCode ==
    (E2E /\ pc = "exited") =>
       /\ exit_code \in {0, 1}
       /\ exit_code = 0 <=>
            /\ skip_prerequisites \/ PrerequisitesPassed
            /\ Phase1Succeeded /\ Phase2Succeeded
            /\ Phase3Succeeded /\ Phase4Succeeded

\* a run that failed in the transfer poll exits with 1
C8_Witness ==
    /\ E2E /\ pc = "exited"
    /\ Phase2Succeeded
    /\ poll_last["transfer"].outcome = "failure"
    /\ exit_code = 1

\* C9: an initiate request of Contract Negotiation or Transfer Process that
\* is answered 409 Conflict does not fail its phase and raises no error.
C9_InitiateConflictIsSuccess ==
    (E2E /\ lastreq \in {"neg_init", "transfer_init"} /\ resp.status_code = 409) =>
        result \notin {"false", "raised"}

\* C10: every create operation returns success when the service answers
\* 409 Conflict.
C10_CreateConflictIsSuccess ==
    (last_create # NoCreate /\ last_create.status = 409) => last_create.ret

-----------------------------------------------------------------------------
(* Properties of the polling functions called on their own *)

\* the called polling function has returned
PollReturned == pc \notin {"call", PollPc[loop]}

C12_SleepsOnlyBeforeRetry ==
    (max_attempts >= 1 /\ pc # "call") =>
        /\ sleeps <= max_attempts - 1
        /\ poll_last[loop].outcome = "timeout" =>
              fetches = max_attempts /\ sleeps = max_attempts - 1

\* the kind of outcome a polling function is at
OutcomeKind(outcome) ==
    IF outcome \in {"success", "failure", "timeout"} THEN outcome
    ELSE IF outcome \in {"none", "polling"} THEN "polling"
    ELSE "fetch_error"

\* the outcome the negotiation poll is at after the per-attempt results s
\* under the limit max, and the number of times it has slept
PollerKind(max, s) ==
    IF s = <<>> THEN "polling"
    ELSE IF Last(s) # "pending" THEN Last(s)
    ELSE IF Len(s) >= max THEN "timeout" ELSE "polling"

PollerSleeps(s) == Cardinality({i \in 1..Len(s) : s[i] = "pending"})

\* C13: the negotiation, transfer, credential and health loops are one
\* bounded poller: under the same limit and the same per-attempt results each
\* is at the same kind of outcome after the same number of fetches and sleeps.
C13_OneBoundedPoller ==
    (max_attempts >= 1 /\ pc # "call") =>
        /\ fetches = Len(fed)
        /\ OutcomeKind(poll_last[loop].outcome) = PollerKind(max_attempts, fed)
        /\ sleeps = PollerSleeps(fed)

-----------------------------------------------------------------------------
(* Properties of the negotiation and transfer awaits *)

\* the last request was a status fetch of loop l answered 200 with an object
StatusAnswer(l) ==
    lastreq = l /\ Fetched200(resp) /\ resp.body.json = "object"

\* C14: when the first k negotiation status responses report a non-terminal
\* state and response k + 1 reports FINALIZED with contractAgreementId a, the
\* poll returns a, read from that response, after k + 1 fetches and k sleeps.
C14_NegotiationAwait ==
    (E2E /\ StatusAnswer("negotiation") /\ resp.body.state = STATE_FINALIZED
         /\ ~Falsy(resp.body.contractAgreementId)) =>
        /\ Last(fed) = "success"
        /\ AllPending(fed, Len(fed) - 1)
        /\ fetches = Len(fed)
        /\ sleeps = Len(fed) - 1
        /\ poll_last["negotiation"].outcome = "success"
        /\ poll_last["negotiation"].value = resp.body.contractAgreementId
        /\ agreement_id = resp.body.contractAgreementId
        /\ pc = "phase3"

\* Requesting, Requesting, Finalized with an agreement id
C14_Witness ==
    /\ E2E /\ StatusAnswer("negotiation")
    /\ fed = <<"pending", "pending", "success">>
    /\ agreement_id = "agreement-1"
    /\ sleeps = 2

\* C15: a FINALIZED negotiation response without contractAgreementId ends the
\* poll with an error of its own kind: the phase fails, and the failure is
\* reported by an error entry that is neither the Terminated nor the Timeout one.
C15_MalformedTerminalState ==
    (E2E /\ StatusAnswer("negotiation") /\ resp.body.state = STATE_FINALIZED
         /\ Falsy(resp.body.contractAgreementId)) =>
        /\ pc = "exited" /\ result = "false"
        /\ Len(errlog) >= 2
        /\ errlog[Len(errlog) - 1].msg \in
              PhaseFailureKinds \ {"Negotiation terminated",
                                   "Negotiation polling timed out"}

\* C16: Contract Negotiation holds an agreement id only from a status
\* response whose state is FINALIZED, and whenever the phase has succeeded the
\* agreement id is non-empty.
C16_AgreementIdIffFinalized ==
    E2E =>
      /\ ~Falsy(agreement_id) =>
            /\ poll_last["negotiation"].state = STATE_FINALIZED
            /\ poll_last["negotiation"].outcome = "success"
            /\ agreement_id = poll_last["negotiation"].value
      /\ (StatusAnswer("negotiation") /\ resp.body.state # STATE_FINALIZED) =>
            Falsy(agreement_id)
      /\ (StatusAnswer("negotiation") /\ ~Falsy(agreement_id)) =>
            agreement_id = resp.body.contractAgreementId
      /\ (pc = "phase3" \/ nreq["transfer_init"] > 0) =>
            /\ ~Falsy(agreement_id)
            /\ poll_last["negotiation"].state = STATE_FINALIZED

C16_Witness ==
    /\ E2E /\ pc = "phase3"
    /\ agreement_id = "agreement-1"
    /\ poll_last["negotiation"].state = STATE_FINALIZED

\* Transfer Process has returned the transfer id
Phase3Returned == pc \in {"phase4", "access_data"} \/ nreq["edr"] > 0

\* C17: the transfer poll takes STARTED for success, TERMINATED for failure
\* and every other reported state for pending, and Transfer Process returns
\* the transfer id exactly when STARTED was observed within maxAttempts fetches
\* with only pending results before it.
C17_TransferAwait ==
    E2E =>
      /\ StatusAnswer("transfer") =>
            /\ resp.body.state = STATE_STARTED =>
                  poll_last["transfer"].outcome = "success"
            /\ resp.body.state = STATE_TERMINATED =>
                  poll_last["transfer"].outcome = "failure"
            /\ resp.body.state \notin {STATE_STARTED, STATE_TERMINATED} =>
                  poll_last["transfer"].outcome \in {"polling", "timeout"}
      /\ Phase3Returned <=> poll_last["transfer"].state = STATE_STARTED
      /\ Phase3Returned =>
            /\ ~Falsy(transfer_id)
            /\ poll_last["transfer"].outcome = "success"
      /\ (loop = "transfer" /\ Phase3Returned) =>
            /\ Last(fed) = "success"
            /\ Len(fed) <= MaxAttemptsOf("transfer")
            /\ AllPending(fed, Len(fed) - 1)

C17_Witness ==
    /\ E2E /\ StatusAnswer("transfer")
    /\ fed = <<"pending", "pending", "success">>
    /\ pc = "phase4"
    /\ transfer_id = "transfer-1"

\* C18: a transfer whose status goes Requesting, Terminated fails after
\* exactly 2 fetches without any EDR request, and the EDR endpoint is requested
\* only in runs whose transfer poll observed STARTED.
C18_NoEdrWithoutStarted ==
    E2E =>
      /\ (loop = "transfer" /\ fed = <<"pending", "failure">>) =>
            /\ fetches = 2
            /\ poll_last["transfer"].outcome = "failure"
            /\ pc = "exited" /\ result = "false"
            /\ nreq["edr"] = 0 /\ nreq["data"] = 0
      /\ poll_last["transfer"].outcome = "failure" => nreq["edr"] = 0
      /\ nreq["edr"] > 0 =>
            /\ poll_last["transfer"].state = STATE_STARTED
            /\ poll_last["transfer"].outcome = "success"

C18_Witness ==
    /\ E2E /\ StatusAnswer("transfer")
    /\ fed = <<"pending", "failure">>
    /\ resp.body.state = STATE_TERMINATED
    /\ pc = "exited"

-----------------------------------------------------------------------------
(* Properties of extract_offer_from_catalog *)

\* the datasets of the catalog, when it lists any
Datasets == resp.body.items
ListsDatasets == resp.body.shape \in {"list", "dict"} /\ Datasets # <<>>

\* the positions of the datasets whose id is the target, and the first of them
Matches ==
    {i \in 1..Len(Datasets) :
        Datasets[i].kind = "object" /\ Datasets[i].id = target_asset_id}
FirstMatch == CHOOSE i \in Matches : \A j \in Matches : i <= j

\* the datasets before position n are JSON objects
ObjectsBefore(n) == \A i \in 1..(n - 1) : Datasets[i].kind = "object"

\* the scan reaches a dataset with the id of the target
Matched == ListsDatasets /\ Matches # {} /\ ObjectsBefore(FirstMatch)

HasPolicyId(dataset) ==
    dataset.policy.kind = "object" /\ ~Falsy(dataset.policy.id)

Found == [ret |-> result, offer |-> offer, log |-> errlog]

\* an empty dataset list fails with EmptyCatalog, and one dataset given as an
\* object is handled like the list of that dataset
EmptyOrSingle ==
    /\ (resp.body.shape \in {"list", "dict"} /\ Datasets = <<>>) =>
          /\ result = "none"
          /\ errlog = <<Msg("Catalog contains no datasets", 0)>>
    /\ resp.body.shape = "dict" =>
          Found = extract_offer_from_catalog(
                      CatalogBody("object", "list", Datasets), target_asset_id)

MissingPolicy ==
    result = "none" /\ errlog = <<Msg("Asset has no policy", 0)>>

\* C20 as stated: EmptyCatalog on an empty list, MissingPolicy when the
\* matched dataset carries no policy object, success with that object whenever
\* it carries one, and a single dataset object is a one-element list.
C20_AsStated ==
    pc = "returned" =>
      /\ EmptyOrSingle
      /\ (Matched /\ Datasets[FirstMatch].policy.kind = "absent") => MissingPolicy
      /\ (Matched /\ Datasets[FirstMatch].policy.kind = "object") =>
            /\ result = "offer"
            /\ offer.policy = Datasets[FirstMatch].policy

\* C20 (amended): EmptyCatalog on an empty list; MissingPolicy when the
\* matched dataset has no policy member or a policy object without a
\* non-empty "@id"; success with that object whenever the matched dataset
\* carries a policy object with a non-empty "@id"; a single dataset object is
\* handled like a one-element list.
C20_PolicyNeedsId ==
    pc = "returned" =>
      /\ EmptyOrSingle
      /\ (Matched /\ Datasets[FirstMatch].policy.kind \in {"absent", "object"}
                  /\ Falsy(Datasets[FirstMatch].policy.id)) => MissingPolicy
      /\ (Matched /\ HasPolicyId(Datasets[FirstMatch])) =>
            /\ result = "offer"
            /\ offer.policy = Datasets[FirstMatch].policy

\* a single dataset object whose policy object has no "@id"
C20_Witness ==
    /\ pc = "returned"
    /\ resp.body.shape = "dict"
    /\ Datasets = <<Dataset("object", "asset-1", Policy("object", NONE))>>
    /\ target_asset_id = "asset-1"
    /\ MissingPolicy


-----------------------------------------------------------------------------
(* Properties of phase_4_data_access *)

\* the response of the data-access GET has arrived
DataAnswered == E2E /\ lastreq = "data"

\* C21: Data Access issues exactly one GET to the EDR endpoint and classifies
\* its response by status: 200 makes Phase 4 (and the run) succeed whatever
\* the body, the empty body included; a status outside 2xx and an unreachable
\* endpoint make the phase fail.
C21_DataAccessByStatus ==
    /\ E2E => nreq["data"] <= 1
    /\ DataAnswered =>
          /\ nreq["data"] = 1 /\ pc = "exited"
          /\ (resp.success /\ resp.status_code = 200) => result = "true"
          /\ ~resp.success =>
                /\ result = "false"
                /\ PhaseFailed(4) \in SeqRange(errlog)

\* the EDR the run took from the answer of the EDR request
RetrievedEdr == resp.body.items[1]

\* the header name the claim gives for an EDR
AuthHeaderOf(edr) == IF edr.authKey = NONE THEN "Authorization" ELSE edr.authKey

\* C22: the data-access GET carries the auth code of the retrieved EDR in the
\* header named by the EDR's authKey, and in "Authorization" only when the
\* EDR has no authKey.
C22_AuthHeaderFromEdr ==
    [][(E2E /\ pc = "access_data" /\ pc' # "access_data") =>
          /\ sent'.data.value = RetrievedEdr.authCode
          /\ sent'.data.header = AuthHeaderOf(RetrievedEdr)]_vars

\* the EDR list arrived with status 200
EdrListAnswered ==
    /\ E2E /\ lastreq = "edr"
    /\ resp.success /\ resp.status_code = 200 /\ resp.body.json = "list"

\* the JSON objects that the modelled EDR lists open with
EdrObjects ==
    {b.items[1] : b \in {x \in RunEdrBodies : x.json = "list" /\ Len(x.items) > 0}}
        \ {Edr("nonobject", NONE, NONE, NONE)}

MalformedEdr(edr) == Falsy(edr.endpoint) \/ Falsy(edr.authCode)

\* the phase has failed on the EDR, before any data request
FailedBeforeData ==
    /\ pc = "exited" /\ result = "false"
    /\ errlog[Len(errlog)] = PhaseFailed(4)
    /\ nreq["data"] = 0 /\ sent.data = Unsent.data

\* C23: retrieve_edr issues one request and hands on the first entry of a
\* non-empty EDR list; an empty list fails the phase with "No EDR found";
\* extract_edr_details returns None with "EDR missing required fields" when
\* endpoint or authCode is missing or empty; in both cases no data-access GET
\* is issued.
C23_EdrHandling ==
    /\ \A e \in EdrObjects :
          MalformedEdr(e) =>
             /\ extract_edr_details(e).ret = "none"
             /\ extract_edr_details(e).log =
                   <<Msg("EDR missing required fields (endpoint or authCode)", 0)>>
    /\ E2E => nreq["edr"] <= 1
    /\ EdrListAnswered =>
          /\ nreq["edr"] = 1
          /\ Len(resp.body.items) = 0 =>
                /\ FailedBeforeData
                /\ errlog[Len(errlog) - 1] = Msg("No EDR found for transfer", 0)
          /\ (Len(resp.body.items) > 0 /\ RetrievedEdr \in EdrObjects) =>
                IF MalformedEdr(RetrievedEdr)
                THEN FailedBeforeData
                ELSE /\ pc = "access_data"
                     /\ edr_details = [endpoint |-> RetrievedEdr.endpoint,
                                       auth_code |-> RetrievedEdr.authCode]

\* a list of two EDRs was answered and the first one is the one in use
C23_Witness ==
    /\ EdrListAnswered
    /\ resp.body.items = <<EDR2, EDR1>>
    /\ edr_details.endpoint = EDR2.endpoint
    /\ pc = "access_data"


-----------------------------------------------------------------------------
(* Properties of request_credentials.py *)

Credentials == script = "request_credentials"

\* the last request was a status fetch answered with a JSON object
CredentialStatusAnswer ==
    /\ Credentials /\ lastreq = "credential"
    /\ resp.success /\ resp.body.json = "object"

\* how poll_credential_status can end without the credentials issued
CredentialPollFailures == {"failure", "fetch_error", "unexpected_error", "timeout"}

\* C24: poll_credential_status takes ISSUED, and nothing else, as success,
\* FAILED and REJECTED as terminal failures, and every other status (PENDING
\* and a missing status included) as pending; request_credentials_from_issuer
\* returns failure whenever the poll ended in FAILED, REJECTED, a fetch error
\* or a timeout, and success after a poll only when it ended in ISSUED.
C24_CredentialClassifier ==
    /\ CredentialStatusAnswer =>
          /\ poll_last["credential"].outcome = "success" <=> resp.body.state = "ISSUED"
          /\ poll_last["credential"].outcome = "failure" <=>
                resp.body.state \in {"FAILED", "REJECTED"}
          /\ resp.body.state \notin {"ISSUED", "FAILED", "REJECTED"} =>
                poll_last["credential"].outcome \in {"polling", "timeout"}
          /\ poll_last["credential"].outcome = "polling" =>
                pc = "poll_credential" /\ result = "none"
    /\ (Credentials /\ poll_last["credential"].outcome \in CredentialPollFailures) =>
          pc = "exited" /\ result = "false" /\ exit_code = 1
    /\ (Credentials /\ lastreq = "credential" /\ result = "true") =>
          /\ poll_last["credential"].outcome = "success"
          /\ Last(fed) = "success"

\* a request that was pending once and then rejected
C24_Witness ==
    /\ CredentialStatusAnswer
    /\ resp.body.state = "REJECTED"
    /\ fed = <<"pending", "failure">>
    /\ result = "false"

\* the credentials request was accepted (2xx)
CredentialsAccepted ==
    /\ Credentials /\ nreq["credentials_request"] = 1
    /\ lastreq = "credentials_request" /\ resp.success

\* C25: when the credentials request is accepted and its response has no
\* Location header, request_credentials_from_issuer logs the warning "No
\* Location header", fetches no status and returns success; and a status is
\* fetched only from a location the response carried.
C25_NoLocationIsSoftWarning ==
    /\ (CredentialsAccepted /\ resp.location = NoLocation) =>
          /\ pc = "exited" /\ result = "true" /\ exit_code = 0
          /\ Last(errlog) = Msg("No Location header in response - cannot poll status", 0)
          /\ loop = "none" /\ fetches = 0
          /\ poll_last["credential"] = NoPollLast
          /\ sent.credential_status = Unsent.credential_status
    /\ (Credentials /\ lastreq = "credential") =>
          sent.credential_status # Unsent.credential_status

\* an accepted request without Location ended the script with exit code 0
C25_Witness ==
    /\ CredentialsAccepted
    /\ resp.location = NoLocation
    /\ resp.status_code = 201
    /\ exit_code = 0

\* the path of a location without the identity prefix it may already carry
ResourcePath(path) ==
    IF Len(path) >= 2 /\ SubSeq(path, 1, 2) = API_IDENTITY
    THEN SubSeq(path, 3, Len(path))
    ELSE path

\* C26: whatever the form of the Location header (absolute http or https,
\* relative /v1alpha..., or already under /api/identity), the status URL that
\* is polled is absolute and its path is /api/identity followed by the
\* resource path, with the prefix exactly once.
C26_StatusUrlUnderIdentityPrefix ==
    (CredentialsAccepted /\ resp.location # NoLocation) =>
        /\ pc = "poll_credential"
        /\ sent.credential_status.scheme \in {"http", "https"}
        /\ sent.credential_status.path =
              API_IDENTITY \o ResourcePath(resp.location.path)


-----------------------------------------------------------------------------
(* Properties of the run as a whole *)

\* C27: no phase function raises past its boundary: whatever the HTTP adapter
\* delivers (200 responses whose JSON has an unexpected shape included), the
\* phase returns a value and run_e2e_test ends with a result, never with an
\* exception.
C27_PhasesNeverRaise ==
    E2E => result # "raised"

\* the requests a run issues once, outside its polling loops
OneShotRequests == {"catalog", "neg_init", "transfer_init", "edr", "data"}

\* C28: nothing is retried across phases: within one run the catalog request,
\* the negotiation and transfer initiations, the EDR retrieval and the
\* data-access GET are each issued at most once and never again after they
\* were answered; only a status GET follows a request of its own kind, each
\* polling loop is entered at most once, and it fetches at most maxAttempts
\* times.
C28_NothingRetriedAcrossPhases ==
    /\ [](E2E =>
            /\ \A k \in OneShotRequests : nreq[k] <= 1
            /\ loop \in Loops => fetches <= max_attempts)
    /\ [][E2E =>
            /\ \A k \in OneShotRequests : nreq'[k] # nreq[k] => nreq[k] = 0
            /\ (lastreq' = lastreq /\ <<nreq, fetches>>' # <<nreq, fetches>>) =>
                  lastreq \in Loops
            /\ loop' # loop => poll_last[loop'] = NoPollLast]_vars

\* a run whose transfer poll used all its attempts after each earlier request
\* was issued once
C28_Witness ==
    /\ E2E /\ result = "false"
    /\ nreq["catalog"] = 1 /\ nreq["neg_init"] = 1 /\ nreq["transfer_init"] = 1
    /\ nreq["edr"] = 0
    /\ loop = "transfer" /\ fetches = max_attempts
    /\ poll_last["transfer"].outcome = "timeout"
    /\ poll_last["negotiation"].outcome = "success"

\* the network timeout of the status request of a polling loop
HttpTimeoutOf(l) ==
    IF l = "credential" THEN HTTP_TIMEOUT
    ELSE IF l = "wait_for_health" THEN ISSUER_HTTP_TIMEOUT_SECONDS
    ELSE HTTP_TIMEOUT_SECONDS

\* the delay a polling loop sleeps between two attempts
PollIntervalOf(l) ==
    IF l = "credential" THEN CREDENTIAL_POLL_INTERVAL_SECONDS
    ELSE IF l = "wait_for_health" THEN HEALTH_CHECK_RETRY_DELAY
    ELSE POLL_INTERVAL_SECONDS

\* C29: in every polling loop the network timeout of one status request does
\* not exceed the interval between two attempts.
C29_TimeoutWithinInterval ==
    loop \in Loops => HttpTimeoutOf(loop) <= PollIntervalOf(loop)

\* the prerequisite check has failed
PrerequisitesFailed ==
    /\ E2E /\ ~skip_prerequisites
    /\ check_idx = 5 /\ ~all_passed /\ lastreq = CheckKinds[5]

\* C30: when skip_prerequisites is false and check_prerequisites fails,
\* run_e2e_test returns False without the catalog request or any request of a
\* later phase; when skip_prerequisites is true, no prerequisite request is
\* issued and the first request of the run is the catalog request of Phase 1.
C30_PrerequisiteGating ==
    /\ [](/\ PrerequisitesFailed =>
               /\ pc = "exited" /\ result = "false" /\ exit_code = 1
               /\ Last(errlog) = Msg("E2E Test Failed - Prerequisites not met", 0)
               /\ \A k \in OneShotRequests : nreq[k] = 0
               /\ \A l \in Loops : poll_last[l] = NoPollLast
          /\ (E2E /\ skip_prerequisites) =>
               /\ \A i \in 1..5 : nreq[CheckKinds[i]] = 0
               /\ check_idx = 0
               /\ lastreq # "none" => nreq["catalog"] = 1)
    /\ [][(E2E /\ skip_prerequisites /\ lastreq = "none" /\ lastreq' # "none") =>
             lastreq' = "catalog"]_vars

\* a run without prerequisite checks that went through all four phases
C30_Witness ==
    /\ E2E /\ skip_prerequisites
    /\ result = "true"
    /\ nreq["catalog"] = 1 /\ nreq["health"] = 0


-----------------------------------------------------------------------------
(* Properties of the status polls, the initiate steps and the prerequisites *)

\* C31: a negotiation or transfer status response with status 200 and a JSON
\* object that has no state member ends the poll with a failure on that
\* fetch: the phase fails, the response is not taken as pending and no
\* further attempt is made.
C31_MissingStateIsMalformed ==
    \A l \in {"negotiation", "transfer"} :
        (E2E /\ StatusAnswer(l) /\ resp.body.state = NONE) =>
            /\ pc = "exited" /\ result = "false"
            /\ poll_last[l].outcome \notin {"polling", "timeout", "success"}

\* the answer to an initiate request is one the step accepts
InitiateAccepted ==
    /\ resp.success /\ resp.status_code = 200
    /\ resp.body.json = "object" /\ ~Falsy(resp.body.id)

\* the initiate requests with their phase, their poll and the id they set
InitiateSteps ==
    { [req |-> "neg_init", phase |-> 2, poll |-> "negotiation"],
      [req |-> "transfer_init", phase |-> 3, poll |-> "transfer"] }

InitiatedId(step) == IF step.phase = 2 THEN negotiation_id ELSE transfer_id

\* C33: initiate_contract_negotiation and initiate_transfer_process succeed
\* only on status 200 with a body whose "@id" is non-empty, and then the poll
\* starts with that id; any other status (201 included), an unparsable body
\* and a missing or empty "@id" fail the phase, and whenever the step did not
\* succeed no status fetch is issued.
C33_InitiateNeeds200AndId ==
    \A step \in InitiateSteps :
        (E2E /\ lastreq = step.req) =>
            /\ pc = PollPc[step.poll] <=> InitiateAccepted
            /\ InitiateAccepted =>
                  /\ InitiatedId(step) = resp.body.id
                  /\ loop = step.poll /\ fetches = 0
            /\ ~InitiateAccepted =>
                  /\ pc = "exited" /\ result # "true"
                  /\ poll_last[step.poll] = NoPollLast
                  /\ (resp.status_code # 200 \/ resp.body.json # "nonobject") =>
                        /\ result = "false"
                        /\ Last(errlog) = PhaseFailed(step.phase)

\* a transfer request answered 201 failed Phase 3 before any status fetch
C33_Witness ==
    /\ E2E /\ lastreq = "transfer_init"
    /\ resp.success /\ resp.status_code = 201
    /\ result = "false"
    /\ poll_last["transfer"] = NoPollLast
    /\ poll_last["negotiation"].outcome = "success"

\* check_prerequisites has run its last check
PrerequisitesReturned == E2E /\ nreq[CheckKinds[5]] = 1

\* check i has failed (returned False or raised)
CheckFailed(i) ==
    \/ Msg("check failed", i) \in SeqRange(errlog)
    \/ Msg("check failed with exception", i) \in SeqRange(errlog)

\* the number of requests check_prerequisites has issued after i checks
RequestsOfChecks(i) == [k \in SeqRange(CheckKinds) |->
    IF \E j \in 1..i : CheckKinds[j] = k THEN (IF k = "health" THEN 3 ELSE 1) ELSE 0]

\* C34: check_prerequisites runs its five checks in the order service health,
\* assets, policies, contract definitions, dataplane, goes on to the next
\* check after a failed one, takes a check that raised as failed, and returns
\* True if and only if all five checks returned True.
C34_AllChecksRun ==
    /\ [](E2E =>
            /\ pc = "prerequisites" =>
                  /\ check_idx \in 1..5
                  /\ \A k \in SeqRange(CheckKinds) :
                        nreq[k] = RequestsOfChecks(check_idx - 1)[k]
                  /\ all_passed <=> \A i \in 1..(check_idx - 1) : ~CheckFailed(i)
            /\ PrerequisitesReturned =>
                  /\ pc # "prerequisites"
                  /\ \A k \in SeqRange(CheckKinds) : nreq[k] = RequestsOfChecks(5)[k]
                  /\ all_passed <=> \A i \in 1..5 : ~CheckFailed(i)
                  /\ ~all_passed =>
                        /\ result = "false"
                        /\ Msg("Prerequisite checks failed", 0) \in SeqRange(errlog)
                  /\ all_passed =>
                        Msg("Prerequisite checks failed", 0) \notin SeqRange(errlog))
    /\ [][(E2E /\ pc = "prerequisites") =>
             /\ lastreq' = CheckKinds[check_idx]
             /\ pc' = "prerequisites" <=> check_idx < 5]_vars

\* the second check failed, the fifth raised, and all five were run
C34_Witness ==
    /\ PrerequisitesReturned
    /\ CheckFailed(2)
    /\ Msg("check failed with exception", 5) \in SeqRange(errlog)
    /\ ~CheckFailed(1) /\ ~CheckFailed(3) /\ ~CheckFailed(4)
    /\ nreq["contractdefinitions"] = 1
    /\ result = "false"


-----------------------------------------------------------------------------
(* Termination of run_e2e_test *)

\* every HTTP call returns, so the step a script is at is eventually taken
LiveSpec == Spec /\ WF_vars(Next)

\* run_e2e_test has been called and has not returned
RunStarted == E2E /\ pc \notin {"main", "exited"}

\* the requests of a run are bounded by the attempt limits alone
RequestsBounded ==
    /\ nreq["health"] <= 3
    /\ \A k \in ReqKinds \ {"health"} : nreq[k] <= 1
    /\ loop \in Loops => fetches <= max_attempts /\ attempt <= max_attempts + 1

\* C32: given that each HTTP call returns, run_e2e_test terminates with a
\* pass/fail result whatever the remote services answer; the number of
\* requests of a run is bounded by its one-shot requests plus maxAttempts
\* status fetches for each of the two polling loops.
C32_TerminatesWithResult ==
    /\ [](E2E => RequestsBounded)
    /\ [][E2E /\ loop' # loop => poll_last[loop'] = NoPollLast /\ fetches' = 0]_vars
    /\ RunStarted ~> (pc = "exited" /\ result \in {"true", "false"})


-----------------------------------------------------------------------------
(* Order of the requests of request_credentials_from_issuer *)

\* the credentials were reported issued by the last status fetch
EndedInIssued ==
    /\ lastreq = "credential"
    /\ resp.success /\ resp.body.json = "object" /\ resp.body.state = "ISSUED"

\* the request was accepted and named no status resource
AcceptedWithoutLocation ==
    /\ lastreq = "credentials_request"
    /\ resp.success /\ resp.location = NoLocation

\* C35: request_credentials_from_issuer fetches the status only after a
\* credentials request that succeeded and returned a Location header, and
\* never after a request that failed with an HTTP or network error; it
\* returns True if and only if the request succeeded and either carried no
\* Location header or the poll ended in ISSUED.
C35_PollOnlyAfterAcceptedRequest ==
    /\ [](Credentials =>
            /\ (lastreq = "credentials_request" /\ ~resp.success) =>
                  /\ pc = "exited" /\ result = "false"
                  /\ loop = "none" /\ fetches = 0
                  /\ poll_last["credential"] = NoPollLast
            /\ (loop = "credential" \/ poll_last["credential"] # NoPollLast) =>
                  /\ nreq["credentials_request"] = 1
                  /\ sent.credential_status \in
                        {fix_location(l) : l \in Locations \ {NoLocation}}
            /\ (pc = "exited" /\ nreq["credentials_request"] = 1) =>
                  (result = "true" <=> (AcceptedWithoutLocation \/ EndedInIssued)))
    /\ [][(Credentials /\ lastreq' = "credential") =>
             \/ lastreq = "credential"
             \/ /\ lastreq = "credentials_request"
                /\ resp.success /\ resp.location # NoLocation]_vars

\* the status was polled after an accepted request and ended in ISSUED
C35_Witness ==
    /\ Credentials /\ EndedInIssued
    /\ nreq["credentials_request"] = 1
    /\ fed = <<"pending", "success">>
    /\ result = "true" /\ exit_code = 0



\* the statements add_participant executed without an exception
Succeeded(stmt) ==
    /\ \E i \in 1..Len(conn.executed) : conn.executed[i] = stmt
    /\ stmt \notin conn.failed

\* the existence check found the holder
FoundExisting == Succeeded("SQL_CHECK_HOLDER") /\ "holders" \in conn.before

StoredInVault ==
    /\ nreq["vault_secret"] = 1
    /\ sent.vault_secret = resp.body.clientSecret
    /\ last_create.kind = "vault_secret"
    /\ last_create.status >= 200 /\ last_create.status <= 299

\* C37: register_provider_participant returns true for a newly created
\* participant only if the client secret of the Identity Hub's answer was then
\* stored in the vault; when the registration is answered 409 it returns true
\* without a vault request; the vault request is never issued before the
\* registration request has succeeded.
C37_SecretStoredBeforeSuccess ==
    script = "register_provider_participant" =>
        /\ (result = "true" /\ resp.status_code # 409) => StoredInVault
        /\ (nreq["register_provider"] = 1 /\ resp.status_code = 409) =>
               result = "true" /\ nreq["vault_secret"] = 0
        /\ nreq["vault_secret"] > 0 =>
               /\ nreq["register_provider"] = 1
               /\ resp.success /\ resp.status_code \in {200, 201}



\* wait_for_health called on its own, past its entry
InWaitForHealth == loop = "wait_for_health" /\ pc \in {"wait_for_health", "exited"}

\* the health checks made so far that found the service healthy
HealthyChecks == {i \in 1..Len(fed) : fed[i] = "success"}

\* C38: wait_for_health makes at most HEALTH_CHECK_MAX_RETRIES health checks
\* (max_attempts stands for the constant); it returns true at the first
\* healthy check and checks no further; after an unhealthy or failed check
\* it goes on while attempts are left; it sleeps once after every unhealthy
\* check but the last; it returns false only after exactly that many checks,
\* all unhealthy.
C38_WaitForHealthBounded ==
    InWaitForHealth =>
        /\ fetches = Len(fed)
        /\ fetches <= max_attempts
        /\ HealthyChecks \subseteq {Len(fed)}
        /\ HealthyChecks # {} <=> result = "true"
        /\ result = "true" => pc = "exited" /\ sleeps = fetches - 1
        /\ (HealthyChecks = {} /\ fetches < max_attempts) =>
               pc = "wait_for_health" /\ result = "none" /\ sleeps = fetches
        /\ (HealthyChecks = {} /\ fetches = max_attempts) =>
               /\ pc = "exited" /\ result = "false"
               /\ sleeps = IF max_attempts = 0 THEN 0 ELSE max_attempts - 1
        /\ result = "false" => fetches = max_attempts /\ HealthyChecks = {}

\* the service answered a failed check and an unhealthy one, then a healthy
\* one at the last attempt
C38_Witness ==
    /\ InWaitForHealth
    /\ Len(fed) = max_attempts
    /\ \E i, j \in 1..Len(fed) : fed[i] = "fetch_error" /\ fed[j] = "pending"
    /\ HealthyChecks = {Len(fed)}
    /\ result = "true"



\* the requests a step of run_seeding_sequence has issued
SeedRequests(step) ==
    IF step = "wait_for_health" THEN fetches
    ELSE IF step = "check_did_server" THEN nreq["did_server"]
    ELSE nreq[step]

\* the steps in the order of run_seeding_sequence
SEEDING_ORDER ==
    <<"load_config", "wait_for_health", "check_did_server">> \o SEED_CREATE_STEPS

\* a step returned False: run_seeding_sequence logged its failure
SeedFailed(step) ==
    \E i \in 1..Len(errlog) : errlog[i] = SeedStepFailed(step)

\* the service was observed healthy: the last health check was answered 200
ObservedHealthy ==
    /\ fed # <<>>
    /\ fed[Len(fed)] = "success"
    /\ poll_last["wait_for_health"].outcome = "success"

====
